---- MODULE Spec2Model ----
(***************************************************************************)
(* A model of the sensor-reading fetch pipeline of the repository,         *)
(* src/data-fetcher/readings_fetcher.py.                                   *)
(*                                                                         *)
(* SpecFetch : one call of fetch_measurements against a measurement API    *)
(*             whose responses are chosen nondeterministically.            *)
(* Spec      : one run of the script: the worker pool running              *)
(*             process_sensor for every row of the sensor catalog, the     *)
(*             memoized fetch_weather they share, the main thread          *)
(*             collecting the futures and saving the table.  Here a call   *)
(*             of fetch_measurements is one step that yields one of the    *)
(*             lists SpecFetch shows it can return.                        *)
(* SpecRuns  : runs of the script one after the other on one output file.  *)
(* SpecHDI   : one run of src/HDI/data_enricher.py.                        *)
(* SpecAnomalies : one call of detect_sudden_changes of src/anomalies.py.  *)
(* SpecSensors : runs of src/data-fetcher/sensors_fetcher.py on one        *)
(*             sensors.csv.                                                *)
(* SpecApp   : one browser session of the dashboard src/app.py: the two    *)
(*             country multiselects and the session state behind them.     *)
(***************************************************************************)
EXTENDS Integers, Sequences, FiniteSets, TLC

VARIABLES
    \* ---- fetch_measurements (one call) ----
    api,          \* what the measurement API puts in "meta" during this call
    sensor_id,    \* the sensor_id argument
    fpc,          \* "request" (about to call session.get) | "returned" | "unused"
    page,         \* params["page"]
    attempt,      \* the loop variable of  for attempt in range(max_retries)
    all_results,  \* the list all_results
    requests,     \* history: the page number of every session.get issued
    sleeps,       \* history: the argument of every time.sleep call
    last,         \* history: the outcomes of the session.get calls of the current for loop
    served,       \* history: the raw results of every processed 200 page, in order
    \* ---- one run of the script ----
    sensors_df,   \* the rows of INPUT_FILE, as pd.read_csv returned them
    tpc,          \* per task (future): "pending" | "fetch" | "lookup" | "calling" |
                  \*                    "done" | "raised"
    results,      \* per task: the list results of process_sensor
    pos,          \* per task: index in results of  for r in results
    cache,        \* the lru_cache of fetch_weather: entries, least recently used first
    calls,        \* history: per weather key, the requests.get calls issued
    resp,         \* history: per task, the last weather response it received
    all_data,     \* the list all_data
    collected,    \* the futures the as_completed loop has consumed
    mpc,          \* main thread: "start" (about to open the pool) | "collect" | "save" |
                  \*              "exit" | "crashed" (left by an uncaught exception)
    file,         \* OUTPUT_FILE: <<>> when it does not exist, else <<its lines>>
    fetched,      \* history: per task, the sampling-hour results the measurement API
                  \*          served to its fetch, in the order served, and whether the
                  \*          fetch was abandoned
    delays,       \* history: the time.sleep(0.2) calls made, by the main thread and by
                  \*          the worker thread of each task
    \* ---- one run of HDI/data_enricher.py ----
    df,           \* the data frame: per country and year the columns le, eys, mys, gnipc
                  \* and, once computed, the three index columns
    hpc,          \* <<"compute", y>> | <<"check", y>> | <<"write">> | <<"exit">> | <<"unused">>
    warned,       \* history: the "out of bounds" warnings printed, as <<component, year>>
    hdi_processed, \* hdi_processed.csv: <<>> while not written, else <<the data frame>>
    \* ---- one call of detect_sudden_changes (anomalies.py) ----
    anom_df,       \* the argument df: the year columns of the attribute, and per row
                   \* the country and its value in each of them (<<>> is NaN)
    threshold_abs, \* the argument threshold_abs: <<>> is None
    threshold_pct, \* the argument threshold_pct, a fraction [num, den]: <<>> is None
    anomalies,     \* the list anomalies, returned as a data frame
    dpc,           \* "call" | "returned" | "unused"
    \* ---- runs of sensors_fetcher.py ----
    sensors_csv,   \* DATA_ROOT + "sensors.csv": <<>> when it does not exist, else
                   \* <<its rows>>
    response,      \* response.json() of the locations request of the run
    nrows,         \* the counter rows
    printed,       \* the number printed after "Saved rows:", <<>> while not printed
    spc,           \* "get" | "open" | "header" | "loop" | "print" | "exit" | "unused"
    loc_pos,       \* index of the next location of  for location in ...
    old_csv,       \* history: sensors_csv when the run started
    \* ---- one session of app.py ----
    selected_countries, \* st.session_state.selected_countries
    sync_key_counter,   \* st.session_state.sync_key_counter
    widget_state,  \* st.session_state entries of the widget keys: per multiselect
                   \* and key counter the value the widget holds (<<>>: no such key)
    shown,         \* per multiselect, the key counter and the selection the browser
                   \* shows
    apc,           \* "idle" | "rerun" (a script run is due) | "unused"
    last_change,   \* history: the selection the user made last, <<>> before any
    year_radar     \* the slider of the Component Comparison tab

fetchVars == <<api, sensor_id, fpc, page, attempt, all_results, requests, sleeps,
               last, served>>

runVars == <<sensors_df, tpc, results, pos, cache, calls, resp, all_data, collected,
             mpc, file, fetched, delays>>

hdiVars == <<df, hpc, warned, hdi_processed>>

anomVars == <<anom_df, threshold_abs, threshold_pct, anomalies, dpc>>

catalogVars == <<sensors_csv, response, nrows, printed, spc, loc_pos, old_csv>>

appVars == <<selected_countries, sync_key_counter, widget_state, shown, apc, last_change,
             year_radar>>

otherVars == <<anomVars, catalogVars, appVars>>

vars == <<fetchVars, runVars, hdiVars, otherVars>>

-----------------------------------------------------------------------------
(* Bounds of the model *)

\* session.get calls one fetch may issue in the model
MaxRequests == 6
\* results one response page carries at most in the model
MaxPerPage == 2
\* raw results the API serves to one fetch at most in the model
MaxServed == 4
\* results the API serves to one call of fetch_measurements in a run of the script
MaxRows == 2
\* rows one run of the script saves at most, where a run is one step
MaxRunRows == 2
\* lines OUTPUT_FILE holds at most, where runs follow each other
MaxLines == 5
\* years of the HDI panel the model runs data_enricher over (the code: 1990..2023)
MaxYears == 2
\* @lru_cache(maxsize=5000): the model scales the capacity of the cache down, so that
\* a run of the model can fill it
maxsize == 1

(* Program constants *)

\* def fetch_measurements(..., max_retries=5)
max_retries == 5
\* params["limit"]
limit_param == 1000
\* MAX_WORKERS = min(5, ...)
PoolCap == 5
\* start_date = 2025-01-01T00:00:00Z, in seconds since the epoch
EpochStart == 1735689600
\* years = range(1990, 2024)
FirstYear == 1990

\* An absent key of a JSON object is the empty sequence, a present one <<value>>.
Absent == <<>>
Some(x) == <<x>>

\* A timestamp string "....Z" of the API is modelled by the number of whole hours
\* between 2025-01-01T00:00:00Z (start_date) and the instant it denotes.
Instants == {6, 7, 24}
Values == {5}

\* One element of data["results"]: {"period": {"datetimeFrom": {"utc": ..}}, "value": ..}
Measurements == [utc : Instants, value : Values]

\* datetime.fromisoformat(s.replace("Z", "+00:00")).hour
HourOf(utc) == utc % 24

SamplingHours == {0, 6, 12, 18}

\* The result lists a response can carry
RECURSIVE SeqsUpTo(_, _)
SeqsUpTo(S, n) ==
    IF n = 0 THEN {<<>>}
    ELSE LET shorter == SeqsUpTo(S, n - 1)
         IN  shorter \cup {Append(s, x) : s \in {t \in shorter : Len(t) = n - 1}, x \in S}

\* One page lists distinct measurements; two pages may overlap
Pages ==
    {s \in SeqsUpTo(Measurements, MaxPerPage) :
        \A i, j \in DOMAIN s : i # j => s[i] # s[j]}

Last(s) == s[Len(s)]

\* What the API reports in meta: the page ("echo": the page requested, "absent": no
\* such key, "first": always 1), the limit and the number of measurements found.
ApiBehaviours == [page : {"echo", "absent", "first"},
                  limit : {Absent, Some(limit_param)},
                  found : {Absent, Some(1000), Some(2500)}]

\* resp.status_code (as text), or the exception session.get raised
OtherStatuses == {"404", "500"}

-----------------------------------------------------------------------------
(* fetch_measurements *)

\* The record appended for a result r
Reading(sid, r) ==
    [reading_datetime |-> r.utc, sensor_id |-> sid, reading_value |-> r.value]

\* Mutant: the hour of a result is not tested
AppendSampled_Unfiltered(acc, sid, page_results) ==
    acc \o [i \in DOMAIN page_results |-> Reading(sid, page_results[i])]

\* Mutant: a result already in the list is skipped
RECURSIVE AppendSampled_Dedup(_, _, _)
AppendSampled_Dedup(acc, sid, page_results) ==
    IF page_results = <<>> THEN acc
    ELSE AppendSampled_Dedup(
            IF /\ HourOf(Head(page_results).utc) \in SamplingHours
               /\ \A i \in DOMAIN acc : acc[i] # Reading(sid, Head(page_results))
                THEN Append(acc, Reading(sid, Head(page_results)))
                ELSE acc,
            sid, Tail(page_results))

\* for r in page_results: if ts.hour in [0, 6, 12, 18]: all_results.append({...})
RECURSIVE AppendSampled(_, _, _)
AppendSampled(acc, sid, page_results) ==
    IF page_results = <<>> THEN acc
    ELSE AppendSampled(
            IF HourOf(Head(page_results).utc) \in SamplingHours
                THEN Append(acc, Reading(sid, Head(page_results)))
                ELSE acc,
            sid, Tail(page_results))

\* meta.get("page", params["page"]), meta.get("limit", len(page_results)), meta.get("found", 0)
MetaPage == CASE api.page = "echo" -> page
              [] api.page = "absent" -> page
              [] OTHER -> 1
MetaLimit(page_results) == IF api.limit = Absent THEN Len(page_results) ELSE api.limit[1]
MetaFound == IF api.found = Absent THEN 0 ELSE api.found[1]

\* Mutant: the last page is missed when page * limit = found
LastPage_Strict(pg, limit, found) == pg * limit > found

\* if page * limit >= found: break
LastPage(pg, limit, found) == pg * limit >= found

\* The while loop is running: the next statement is the session.get of line 48
CanRequest == fpc = "request"

\* session.get(url, params=params, timeout=20)
Issue == requests' = Append(requests, page)

\* The outcome s of that call: resp.status_code (as text) or "RequestException"
Received(s) == last' = IF attempt = 0 THEN <<s>> ELSE Append(last, s)

\* Mutant: the delay grows linearly
Backoff_Linear ==
    /\ sleeps' = Append(sleeps, 2 * attempt)
    /\ IF attempt + 1 < max_retries
          THEN attempt' = attempt + 1 /\ fpc' = "request"
          ELSE attempt' = attempt /\ fpc' = "returned"
    /\ UNCHANGED <<page, all_results, served>>

\* Mutant: attempts are counted from 1 in the delay
Backoff_FromOne ==
    /\ sleeps' = Append(sleeps, 2 ^ (attempt + 1))
    /\ IF attempt + 1 < max_retries
          THEN attempt' = attempt + 1 /\ fpc' = "request"
          ELSE attempt' = attempt /\ fpc' = "returned"
    /\ UNCHANGED <<page, all_results, served>>

\* wait = 2 ** attempt; time.sleep(wait); then the next attempt, or the for-else
Backoff ==
    /\ sleeps' = Append(sleeps, 2 ^ attempt)
    /\ IF attempt + 1 < max_retries
          THEN attempt' = attempt + 1 /\ fpc' = "request"
          ELSE attempt' = attempt /\ fpc' = "returned"
    /\ UNCHANGED <<page, all_results, served>>

\* resp.status_code == 408
FetchTimeout ==
    /\ CanRequest
    /\ Issue
    /\ Received("408")
    /\ Backoff
    /\ UNCHANGED <<api, sensor_id, runVars, hdiVars, otherVars>>

\* resp.status_code == 429
FetchRateLimit ==
    /\ CanRequest
    /\ Issue
    /\ Received("429")
    /\ Backoff
    /\ UNCHANGED <<api, sensor_id, runVars, hdiVars, otherVars>>

\* Mutant: the exception is not caught
FetchNetworkError_Raises ==
    /\ CanRequest
    /\ Issue
    /\ Received("RequestException")
    /\ fpc' = "raised"
    /\ UNCHANGED <<api, sensor_id, page, attempt, all_results, sleeps, served, runVars, hdiVars, otherVars>>

\* except requests.RequestException
FetchNetworkError ==
    /\ CanRequest
    /\ Issue
    /\ Received("RequestException")
    /\ Backoff
    /\ UNCHANGED <<api, sensor_id, runVars, hdiVars, otherVars>>

\* Mutant: every non-200 status is retried
FetchHttpError_Retries ==
    /\ CanRequest
    /\ Issue
    /\ \E s \in OtherStatuses : Received(s)
    /\ Backoff
    /\ UNCHANGED <<api, sensor_id, runVars, hdiVars, otherVars>>

\* resp.status_code != 200: return all_results
FetchHttpError ==
    /\ CanRequest
    /\ Issue
    /\ \E s \in OtherStatuses : Received(s)
    /\ fpc' = "returned"
    /\ UNCHANGED <<api, sensor_id, page, attempt, all_results, sleeps, served, runVars, hdiVars, otherVars>>

\* Mutant: the attempt counter is carried over to the next page
FetchPage_KeepsAttempt ==
    /\ CanRequest
    /\ Issue
    /\ Received("200")
    /\ \E page_results \in Pages :
        /\ Len(served) + Len(page_results) <= MaxServed
        /\ IF page_results = <<>>
              THEN /\ fpc' = "returned"
                   /\ UNCHANGED <<page, attempt, all_results, served>>
              ELSE /\ all_results' = AppendSampled(all_results, sensor_id, page_results)
                   /\ served' = served \o page_results
                   /\ IF LastPage(MetaPage, MetaLimit(page_results), MetaFound)
                         THEN fpc' = "returned" /\ UNCHANGED <<page, attempt>>
                         ELSE fpc' = "request" /\ page' = MetaPage + 1 /\ attempt' = attempt
    /\ UNCHANGED <<api, sensor_id, sleeps, runVars, hdiVars, otherVars>>

\* Mutant: the page number is not advanced
FetchPage_SamePage ==
    /\ CanRequest
    /\ Issue
    /\ Received("200")
    /\ \E page_results \in Pages :
        /\ Len(served) + Len(page_results) <= MaxServed
        /\ IF page_results = <<>>
              THEN /\ fpc' = "returned"
                   /\ UNCHANGED <<page, attempt, all_results, served>>
              ELSE /\ all_results' = AppendSampled(all_results, sensor_id, page_results)
                   /\ served' = served \o page_results
                   /\ IF LastPage(MetaPage, MetaLimit(page_results), MetaFound)
                         THEN fpc' = "returned" /\ UNCHANGED <<page, attempt>>
                         ELSE fpc' = "request" /\ page' = MetaPage /\ attempt' = 0
    /\ UNCHANGED <<api, sensor_id, sleeps, runVars, hdiVars, otherVars>>

\* A 200 response: its results are filtered and recorded, meta decides what follows
FetchPage ==
    /\ CanRequest
    /\ Issue
    /\ Received("200")
    /\ \E page_results \in Pages :
        /\ Len(served) + Len(page_results) <= MaxServed
        /\ IF page_results = <<>>
              THEN /\ fpc' = "returned"
                   /\ UNCHANGED <<page, attempt, all_results, served>>
              ELSE /\ all_results' = AppendSampled(all_results, sensor_id, page_results)
                   /\ served' = served \o page_results
                   /\ IF LastPage(MetaPage, MetaLimit(page_results), MetaFound)
                         THEN fpc' = "returned" /\ UNCHANGED <<page, attempt>>
                         ELSE fpc' = "request" /\ page' = MetaPage + 1 /\ attempt' = 0
    /\ UNCHANGED <<api, sensor_id, sleeps, runVars, hdiVars, otherVars>>

-----------------------------------------------------------------------------
(* One run of the script *)

(* sensors_df = pd.read_csv(INPUT_FILE): the catalogs INPUT_FILE can hold in the model,
   latitude and longitude in thousandths of a degree *)

\* Two sensors a few metres apart: their coordinates round to the same hundredths
NearbySensors ==
    << [sensor_id |-> 101, latitude |-> 56176, longitude |-> 10171],
       [sensor_id |-> 102, latitude |-> 56179, longitude |-> 10168] >>

\* One sensor more than the pool has workers
ManySensors ==
    [i \in 1 .. PoolCap + 1 |->
        [sensor_id |-> 200 + i, latitude |-> 48200 + 10 * i, longitude |-> 16370]]

\* A catalog file with its header line and no row
NoSensors == <<>>

Catalogs == {NoSensors, NearbySensors, ManySensors}

\* The sensors the measurement API holds measurements of in the date window
Measured == {NearbySensors[i].sensor_id : i \in DOMAIN NearbySensors}

\* The sensors whose fetch the measurement API cuts short in the model, by an error
\* status or by failing max_retries attempts of a page; the fetches of the other
\* sensors reach their last page
Flaky == {NearbySensors[1].sensor_id, ManySensors[1].sensor_id}

\* One future per row: futures = [executor.submit(process_sensor, row) for ...]
Tasks == 1 .. Len(sensors_df)

FetchSensorIds == {NearbySensors[1].sensor_id}

Min(a, b) == IF a <= b THEN a ELSE b

\* MAX_WORKERS = min(5, len(sensors_df))
MAX_WORKERS == Min(PoolCap, Len(sensors_df))

\* round(x, 2) of a coordinate given in thousandths: the nearest hundredth (the catalog
\* of the model holds no coordinate half-way between two hundredths)
Round2(x) == (x + 5) \div 10

\* int(datetime.fromisoformat(...).timestamp()): seconds since the epoch
Timestamp(utc) == EpochStart + utc * 3600

\* Mutant: every lookup of a task uses the timestamp of its first row
KeyOf_FirstRow(t, r) ==
    << Round2(sensors_df[t].latitude), Round2(sensors_df[t].longitude),
       Timestamp(results[t][1].reading_datetime) >>

\* The arguments of fetch_weather for row r of task t: the key of the lru_cache
KeyOf(t, r) ==
    << Round2(sensors_df[t].latitude), Round2(sensors_df[t].longitude),
       Timestamp(r.reading_datetime) >>

\* The weather the remote API holds for (lat, lon, start)
Observed(k) ==
    [speed  |-> 1 + (k[2] % 10),
     rain1h |-> 1 + (((k[3] % 86400) \div 3600) % 4),
     temp   |-> (k[1] % 100) + ((k[3] % 86400) \div 3600)]

\* The responses requests.get(url, timeout=10) can return for key k (status as text)
WeatherResponses(k) ==
    { [status |-> "500", list |-> <<>>],
      [status |-> "200", list |-> <<>>],
      [status |-> "200", list |-> << [wind |-> Some(Observed(k).speed),
                                    rain |-> Some(Observed(k).rain1h),
                                    main |-> Some(Observed(k).temp)] >>],
      [status |-> "200", list |-> << [wind |-> Some(Observed(k).speed),
                                    rain |-> Absent,
                                    main |-> Some(Observed(k).temp)] >>] }

\* No response yet, and requests.get raising instead of returning
NoResponse == [status |-> "none", list |-> <<>>]
Raised == [status |-> "RequestException", list |-> <<>>]

\* d.get(key, default)
Get(opt, default) == IF opt = Absent THEN default ELSE opt[1]

\* Mutant: the missing temperature is 0
Sentinel_Zero == [wind_speed |-> 0, rain |-> 0, temp |-> 0]

Sentinel == [wind_speed |-> 0, rain |-> 0, temp |-> 999]

\* The body of fetch_weather after requests.get has returned r
WeatherOf(r) ==
    IF r.status # "200" THEN Sentinel
    ELSE IF r.list = <<>> THEN Sentinel
    ELSE LET result == r.list[1]
         IN  [wind_speed |-> Get(result.wind, 0),
              rain       |-> Get(result.rain, 0),
              temp       |-> Get(result.main, 999)]

(* functools.lru_cache(maxsize): the entries, least recently used first *)

CacheKeys(c) == {c[i].key : i \in DOMAIN c}

CacheGet(c, k) == c[CHOOSE i \in DOMAIN c : c[i].key = k].value

\* A hit moves the entry to the most recently used end
Touch(c, k) ==
    LET i == CHOOSE j \in DOMAIN c : c[j].key = k
    IN  Append(SubSeq(c, 1, i - 1) \o SubSeq(c, i + 1, Len(c)), c[i])

\* Mutant: the cache grows without bound
Insert_Unbounded(c, k, v) ==
    IF k \in CacheKeys(c) THEN c ELSE Append(c, [key |-> k, value |-> v])

\* Mutant: the sentinel is returned but not stored
Insert_SkipsSentinel(c, k, v) ==
    IF k \in CacheKeys(c) \/ v.temp = 999 THEN c
    ELSE IF Len(c) < maxsize THEN Append(c, [key |-> k, value |-> v])
    ELSE Append(Tail(c), [key |-> k, value |-> v])

\* After the call of a miss returned v: nothing if the key was added meanwhile, a new
\* entry if the cache is not full, else the least recently used entry is replaced
Insert(c, k, v) ==
    IF k \in CacheKeys(c) THEN c
    ELSE IF Len(c) < maxsize THEN Append(c, [key |-> k, value |-> v])
    ELSE Append(Tail(c), [key |-> k, value |-> v])

\* Mutant: only the wind speed and the rain are copied into the row
Update_NoTemp(r, weather) == [k \in {"wind_speed", "rain"} |-> weather[k]] @@ r

\* r.update(weather)
Update(r, weather) == weather @@ r

Running == {t \in Tasks : tpc[t] \in {"fetch", "lookup", "calling"}}

\* item["period"]["datetimeFrom"]["utc"] is at one of the sampling hours
AtSamplingHour(m) == HourOf(m.utc) \in SamplingHours

\* What a call of fetch_measurements can come to for a sensor, raw being the results of
\* the pages it processed: the list it returns, the sampling-hour results among raw in
\* the order served, and whether it ended by giving a page up (return all_results after
\* an error status or max_retries failed attempts) instead of reaching the last page;
\* the caller receives the list either way
FetchReturns(sid) ==
    {[rows |-> AppendSampled(<<>>, sid, raw), sampled |-> SelectSeq(raw, AtSamplingHour),
      abandoned |-> sid \in Flaky] :
        raw \in (IF sid \in Measured THEN SeqsUpTo(Measurements, MaxRows) ELSE {<<>>})}

\* MAX_WORKERS = min(5, len(sensors_df)); ThreadPoolExecutor(max_workers=MAX_WORKERS),
\* which raises ValueError unless max_workers > 0; one executor.submit per row
Submit ==
    /\ mpc = "start"
    /\ mpc' = IF MAX_WORKERS <= 0 THEN "crashed" ELSE "collect"
    /\ UNCHANGED <<sensors_df, tpc, results, pos, cache, calls, resp, all_data,
                   collected, file, fetched, delays>>
    /\ UNCHANGED <<fetchVars, hdiVars, otherVars>>

\* Mutant: a thread per submitted task
TaskStart_Unbounded(t) ==
    /\ mpc = "collect"
    /\ tpc[t] = "pending"
    /\ tpc' = [tpc EXCEPT ![t] = "fetch"]
    /\ UNCHANGED <<sensors_df, results, pos, cache, calls, resp, all_data, collected,
                   mpc, file, fetched, delays>>
    /\ UNCHANGED <<fetchVars, hdiVars, otherVars>>

\* A worker thread takes the next submitted task and calls process_sensor(row)
TaskStart(t) ==
    /\ mpc = "collect"
    /\ tpc[t] = "pending"
    /\ \A u \in Tasks : u < t => tpc[u] # "pending"
    /\ Cardinality(Running) < MAX_WORKERS
    /\ tpc' = [tpc EXCEPT ![t] = "fetch"]
    /\ UNCHANGED <<sensors_df, results, pos, cache, calls, resp, all_data, collected,
                   mpc, file, fetched, delays>>
    /\ UNCHANGED <<fetchVars, hdiVars, otherVars>>

\* Mutant: an abandoned fetch raises instead of returning its list
TaskFetched_Raises(t) ==
    /\ tpc[t] = "fetch"
    /\ \E f \in FetchReturns(sensors_df[t].sensor_id) :
        /\ fetched' = [fetched EXCEPT ![t] = [sampled |-> f.sampled,
                                            abandoned |-> f.abandoned]]
        /\ results' = [results EXCEPT ![t] = f.rows]
        /\ tpc' = [tpc EXCEPT ![t] = IF f.abandoned THEN "raised"
                                     ELSE IF f.rows = <<>> THEN "done" ELSE "lookup"]
    /\ pos' = [pos EXCEPT ![t] = 1]
    /\ UNCHANGED <<sensors_df, cache, calls, resp, all_data, collected, mpc, file, delays>>
    /\ UNCHANGED <<fetchVars, hdiVars, otherVars>>

\* results = fetch_measurements(sensor_id, start_date, end_date)
TaskFetched(t) ==
    /\ tpc[t] = "fetch"
    /\ \E f \in FetchReturns(sensors_df[t].sensor_id) :
        /\ fetched' = [fetched EXCEPT ![t] = [sampled |-> f.sampled,
                                            abandoned |-> f.abandoned]]
        /\ results' = [results EXCEPT ![t] = f.rows]
        /\ tpc' = [tpc EXCEPT ![t] = IF f.rows = <<>> THEN "done" ELSE "lookup"]
    /\ pos' = [pos EXCEPT ![t] = 1]
    /\ UNCHANGED <<sensors_df, cache, calls, resp, all_data, collected, mpc, file, delays>>
    /\ UNCHANGED <<fetchVars, hdiVars, otherVars>>

\* r.update(weather), then the next r of the for loop or return results
Attach(t, weather) ==
    /\ results' = [results EXCEPT ![t][pos[t]] = Update(@, weather)]
    /\ pos' = [pos EXCEPT ![t] = @ + 1]
    /\ tpc' = [tpc EXCEPT ![t] = IF pos[t] + 1 > Len(results[t]) THEN "done" ELSE "lookup"]

\* weather = fetch_weather(...): the cache is looked up; a hit returns the cached
\* record, a miss calls the function, which issues requests.get
WeatherLookup(t) ==
    /\ tpc[t] = "lookup"
    /\ LET k == KeyOf(t, results[t][pos[t]])
       IN  IF k \in CacheKeys(cache)
              THEN /\ cache' = Touch(cache, k)
                   /\ Attach(t, CacheGet(cache, k))
                   /\ UNCHANGED calls
              ELSE /\ calls' = [calls EXCEPT ![k] = @ + 1]
                   /\ tpc' = [tpc EXCEPT ![t] = "calling"]
                   /\ UNCHANGED <<cache, results, pos>>
    /\ UNCHANGED <<sensors_df, resp, all_data, collected, mpc, file, fetched, delays>>
    /\ UNCHANGED <<fetchVars, hdiVars, otherVars>>

\* requests.get returns; fetch_weather returns its record, the cache stores it
WeatherRespond(t) ==
    /\ tpc[t] = "calling"
    /\ LET k == KeyOf(t, results[t][pos[t]])
       IN  \E r \in WeatherResponses(k) :
              /\ resp' = [resp EXCEPT ![t] = r]
              /\ cache' = Insert(cache, k, WeatherOf(r))
              /\ Attach(t, WeatherOf(r))
    /\ UNCHANGED <<sensors_df, calls, all_data, collected, mpc, file, fetched, delays>>
    /\ UNCHANGED <<fetchVars, hdiVars, otherVars>>

\* Mutant: the failure is stored as the sentinel before the exception leaves
WeatherRaise_Cached(t) ==
    /\ tpc[t] = "calling"
    /\ tpc' = [tpc EXCEPT ![t] = "raised"]
    /\ resp' = [resp EXCEPT ![t] = Raised]
    /\ cache' = Insert(cache, KeyOf(t, results[t][pos[t]]), Sentinel)
    /\ UNCHANGED <<sensors_df, results, pos, calls, all_data, collected, mpc,
                   file, fetched, delays>>
    /\ UNCHANGED <<fetchVars, hdiVars, otherVars>>

\* requests.get raises: the exception leaves fetch_weather and process_sensor
WeatherRaise(t) ==
    /\ tpc[t] = "calling"
    /\ tpc' = [tpc EXCEPT ![t] = "raised"]
    /\ resp' = [resp EXCEPT ![t] = Raised]
    /\ UNCHANGED <<sensors_df, results, pos, cache, calls, all_data, collected, mpc,
                   file, fetched, delays>>
    /\ UNCHANGED <<fetchVars, hdiVars, otherVars>>

Reverse(s) == [i \in DOMAIN s |-> s[Len(s) + 1 - i]]

\* Mutant: the first row of a task is merged in front of the rows merged before
Collect_Split(t) ==
    /\ mpc = "collect"
    /\ t \notin collected
    /\ tpc[t] \in {"done", "raised"}
    /\ all_data' = IF tpc[t] = "done" /\ results[t] # <<>>
                      THEN <<Head(results[t])>> \o all_data \o Tail(results[t])
                      ELSE all_data
    /\ collected' = collected \cup {t}
    /\ delays' = [delays EXCEPT !.main = @ + 1]
    /\ mpc' = IF collected' = Tasks THEN "save" ELSE "collect"
    /\ UNCHANGED <<sensors_df, tpc, results, pos, cache, calls, resp, file, fetched>>
    /\ UNCHANGED <<fetchVars, hdiVars, otherVars>>

\* Mutant: the rows of a task are merged last row first
Collect_Reversed(t) ==
    /\ mpc = "collect"
    /\ t \notin collected
    /\ tpc[t] \in {"done", "raised"}
    /\ all_data' = IF tpc[t] = "done" THEN all_data \o Reverse(results[t]) ELSE all_data
    /\ collected' = collected \cup {t}
    /\ delays' = [delays EXCEPT !.main = @ + 1]
    /\ mpc' = IF collected' = Tasks THEN "save" ELSE "collect"
    /\ UNCHANGED <<sensors_df, tpc, results, pos, cache, calls, resp, file, fetched>>
    /\ UNCHANGED <<fetchVars, hdiVars, otherVars>>

\* Mutant: the rows a task had when it raised are merged as well
Collect_KeepsPartial(t) ==
    /\ mpc = "collect"
    /\ t \notin collected
    /\ tpc[t] \in {"done", "raised"}
    /\ all_data' = all_data \o results[t]
    /\ collected' = collected \cup {t}
    /\ delays' = [delays EXCEPT !.main = @ + 1]
    /\ mpc' = IF collected' = Tasks THEN "save" ELSE "collect"
    /\ UNCHANGED <<sensors_df, tpc, results, pos, cache, calls, resp, file, fetched>>
    /\ UNCHANGED <<fetchVars, hdiVars, otherVars>>

\* One round of  for future in as_completed(futures): future.result() returns the list
\* of the task or raises its exception, then the main thread sleeps
Collect(t) ==
    /\ mpc = "collect"
    /\ t \notin collected
    /\ tpc[t] \in {"done", "raised"}
    /\ all_data' = IF tpc[t] = "done" THEN all_data \o results[t] ELSE all_data
    /\ collected' = collected \cup {t}
    /\ delays' = [delays EXCEPT !.main = @ + 1]
    /\ mpc' = IF collected' = Tasks THEN "save" ELSE "collect"
    /\ UNCHANGED <<sensors_df, tpc, results, pos, cache, calls, resp, file, fetched>>
    /\ UNCHANGED <<fetchVars, hdiVars, otherVars>>

\* pd.DataFrame(all_data).columns
Columns(rows) == UNION {DOMAIN rows[i] : i \in DOMAIN rows}

HeaderLine(rows) == [header |-> Columns(rows)]

\* Mutant: the file is opened for writing whether it exists or not
ToCsv_Overwrites(old, rows) == Some(<<HeaderLine(rows)>> \o rows)

\* Mutant: the header line is written whether the file exists or not
ToCsv_AlwaysHeader(old, rows) ==
    Some((IF old = Absent THEN <<>> ELSE old[1]) \o <<HeaderLine(rows)>> \o rows)

\* df_final.to_csv(OUTPUT_FILE, mode="a" if exists else "w", index=False, header=not exists):
\* OUTPUT_FILE afterwards, old being OUTPUT_FILE before
ToCsv(old, rows) ==
    IF old = Absent
        THEN Some(<<HeaderLine(rows)>> \o rows)
        ELSE Some(old[1] \o rows)

\* df_final = pd.DataFrame(all_data); df_final.to_csv(...)
Save ==
    /\ mpc = "save"
    /\ file' = ToCsv(file, all_data)
    /\ mpc' = "exit"
    /\ UNCHANGED <<sensors_df, tpc, results, pos, cache, calls, resp, all_data,
                   collected, fetched, delays>>
    /\ UNCHANGED <<fetchVars, hdiVars, otherVars>>

NotFetched == [sampled |-> <<>>, abandoned |-> FALSE]

NoDelays == [main |-> 0, task |-> [t \in Tasks |-> 0]]

\* The keys a run of the model can look up
WeatherKeys ==
    {<<Round2(sensors_df[t].latitude), Round2(sensors_df[t].longitude), Timestamp(u)>> :
        t \in Tasks, u \in Instants}

\* A file left by an earlier run
OldFile ==
    LET old == << [reading_datetime |-> 0, sensor_id |-> 101, reading_value |-> 5,
                   wind_speed |-> 0, rain |-> 0, temp |-> 999] >>
    IN  <<HeaderLine(old)>> \o old

AnomUnused ==
    /\ anom_df = [columns |-> {}, rows |-> <<>>]
    /\ threshold_abs = <<>>
    /\ threshold_pct = <<>>
    /\ anomalies = <<>>
    /\ dpc = "unused"

CatalogUnused ==
    /\ sensors_csv = <<>>
    /\ response = <<>>
    /\ nrows = 0
    /\ printed = <<>>
    /\ spc = "unused"
    /\ loc_pos = 1
    /\ old_csv = <<>>

AppUnused ==
    /\ selected_countries = <<>>
    /\ sync_key_counter = 0
    /\ widget_state = <<>>
    /\ shown = <<>>
    /\ apc = "unused"
    /\ last_change = <<>>
    /\ year_radar = 2023

OthersUnused == AnomUnused /\ CatalogUnused /\ AppUnused

HdiUnused ==
    /\ df = <<>>
    /\ hpc = <<"unused">>
    /\ warned = {}
    /\ hdi_processed = <<>>

FetchUnused ==
    /\ api = [page |-> "echo", limit |-> Absent, found |-> Absent]
    /\ sensor_id = 0
    /\ fpc = "unused"
    /\ page = 1
    /\ attempt = 0
    /\ all_results = <<>>
    /\ requests = <<>>
    /\ sleeps = <<>>
    /\ last = <<>>
    /\ served = <<>>

RunUnused ==
    /\ sensors_df = NearbySensors
    /\ tpc = [t \in Tasks |-> "unused"]
    /\ results = [t \in Tasks |-> <<>>]
    /\ pos = [t \in Tasks |-> 1]
    /\ cache = <<>>
    /\ calls = [k \in WeatherKeys |-> 0]
    /\ resp = [t \in Tasks |-> NoResponse]
    /\ all_data = <<>>
    /\ collected = {}
    /\ mpc = "unused"
    /\ fetched = [t \in Tasks |-> NotFetched]
    /\ delays = NoDelays

\* The script is started: the catalog is read, all_data = []
Init ==
    /\ FetchUnused
    /\ HdiUnused
    /\ OthersUnused
    /\ sensors_df \in Catalogs
    /\ tpc = [t \in Tasks |-> "pending"]
    /\ results = [t \in Tasks |-> <<>>]
    /\ pos = [t \in Tasks |-> 1]
    /\ cache = <<>>
    /\ calls = [k \in WeatherKeys |-> 0]
    /\ resp = [t \in Tasks |-> NoResponse]
    /\ all_data = <<>>
    /\ collected = {}
    /\ mpc = "start"
    /\ file \in {Absent, Some(OldFile)}
    /\ fetched = [t \in Tasks |-> NotFetched]
    /\ delays = NoDelays

Next ==
    \/ Submit
    \/ \E t \in Tasks : TaskStart(t)
    \/ \E t \in Tasks : TaskFetched(t)
    \/ \E t \in Tasks : WeatherLookup(t)
    \/ \E t \in Tasks : WeatherRespond(t)
    \/ \E t \in Tasks : WeatherRaise(t)
    \/ \E t \in Tasks : Collect(t)
    \/ Save

Spec == Init /\ [][Next]_vars

(* Runs of the script one after the other on the same OUTPUT_FILE.  Here a run is one
   step: it reads a catalog, comes to one of the lists all_data a run can build, and
   saves it (or stops at the pool when the catalog has no row). *)

\* The instants the measurement API holds a measurement of in these runs
RunInstants == {6}

\* The rows a task can return for row t of catalog c
EnrichedRows(c) ==
    UNION { { Update(Reading(c[t].sensor_id, m), WeatherOf(r)) :
                r \in WeatherResponses(<< Round2(c[t].latitude), Round2(c[t].longitude),
                                          Timestamp(m.utc) >>) } :
            t \in {u \in DOMAIN c : c[u].sensor_id \in Measured},
            m \in {x \in Measurements : x.utc \in RunInstants /\ AtSamplingHour(x)} }

\* all_data.extend(future.result()) puts the rows of one task next to each other
Contiguous(rows) ==
    \A i, j, k \in DOMAIN rows :
        (i < j /\ j < k /\ rows[i].sensor_id = rows[k].sensor_id)
            => rows[j].sensor_id = rows[i].sensor_id

\* The lists all_data a run on catalog c can come to
RunRows(c) == {rows \in SeqsUpTo(EnrichedRows(c), MaxRunRows) : Contiguous(rows)}

Idle == mpc \in {"unused", "exit", "crashed"}

\* The task-indexed state of a run that is over is not kept
RunOver(c) ==
    /\ sensors_df' = c
    /\ tpc' = [t \in DOMAIN c |-> "unused"]
    /\ results' = [t \in DOMAIN c |-> <<>>]
    /\ pos' = [t \in DOMAIN c |-> 1]
    /\ resp' = [t \in DOMAIN c |-> NoResponse]
    /\ fetched' = [t \in DOMAIN c |-> NotFetched]
    /\ delays' = [main |-> 0, task |-> [t \in DOMAIN c |-> 0]]
    /\ UNCHANGED <<cache, calls, collected>>

\* A run of the script on a catalog with rows: lines 141 to 158
RunSaves ==
    /\ Idle
    /\ \E c \in Catalogs \ {NoSensors} : \E rows \in RunRows(c) :
        /\ file # Absent => Len(file[1]) + Len(rows) <= MaxLines
        /\ RunOver(c)
        /\ all_data' = rows
        /\ file' = ToCsv(file, rows)
    /\ mpc' = "exit"
    /\ UNCHANGED <<fetchVars, hdiVars, otherVars>>

\* A run of the script on a catalog without rows: ValueError at line 146
RunCrashes ==
    /\ Idle
    /\ RunOver(NoSensors)
    /\ all_data' = <<>>
    /\ mpc' = "crashed"
    /\ UNCHANGED file
    /\ UNCHANGED <<fetchVars, hdiVars, otherVars>>

RunsInit ==
    /\ FetchUnused
    /\ HdiUnused
    /\ OthersUnused
    /\ RunUnused
    /\ file \in {Absent, Some(OldFile)}

RunsNext == RunSaves \/ RunCrashes

SpecRuns == RunsInit /\ [][RunsNext]_vars

FetchInit ==
    /\ api \in ApiBehaviours
    /\ sensor_id \in FetchSensorIds
    /\ fpc = "request"
    /\ page = 1
    /\ attempt = 0
    /\ all_results = <<>>
    /\ requests = <<>>
    /\ sleeps = <<>>
    /\ last = <<>>
    /\ served = <<>>
    /\ RunUnused
    /\ HdiUnused
    /\ OthersUnused
    /\ file = Absent

\* The model follows a fetch for at most MaxRequests requests
Capped == Len(requests) < MaxRequests

FetchNext ==
    \/ Capped /\ FetchTimeout
    \/ Capped /\ FetchRateLimit
    \/ Capped /\ FetchNetworkError
    \/ Capped /\ FetchHttpError
    \/ Capped /\ FetchPage

SpecFetch == FetchInit /\ [][FetchNext]_vars

(* A fetch against a server that echoes the requested page in meta.page and reports
   limit = 1000 and a constant found. The fetch is sequential code of one thread: every
   session.get returns or raises within its timeout of 20 s and every sleep ends, so
   the step that is enabled is eventually taken (weak fairness). The number of requests
   is not capped here; the results served are all the same measurement. *)
EchoApis == {a \in ApiBehaviours : a.page = "echo" /\ a.limit = Some(limit_param) /\ a.found # Absent}

LiveMeasurement == [utc |-> 6, value |-> 5]

FetchLiveInit == FetchInit /\ api \in EchoApis

FetchLiveNext ==
    \/ FetchTimeout
    \/ FetchRateLimit
    \/ FetchNetworkError
    \/ FetchHttpError
    \/ FetchPage /\ \A i \in DOMAIN served' : served'[i] = LiveMeasurement

SpecFetchLive == FetchLiveInit /\ [][FetchLiveNext]_vars /\ WF_vars(FetchLiveNext)

-----------------------------------------------------------------------------
(* One run of HDI/data_enricher.py.  A missing value (NaN) of a column is Absent, a
   present one Some(v); an index is the exact fraction [num, den], den > 0. *)

years == FirstYear .. FirstYear + MaxYears - 1

\* The rows of HDI.csv
Countries == {"NOR"}

\* The values the columns of one country and year hold in HDI.csv
Cells ==
    [le    : {Absent, Some(10), Some(50), Some(90)},
     eys   : {Absent, Some(9), Some(20)},
     mys   : {Absent, Some(6), Some(16)},
     gnipc : {Absent, Some(50), Some(1000), Some(100000)}]

\* np.log(x) in millionths, for the incomes of the model and the two goalposts
Log(x) ==
    CASE x = 50     -> 3912023
      [] x = 100    -> 4605170
      [] x = 1000   -> 6907755
      [] x = 75000  -> 11225243
      [] x = 100000 -> 11512925

Frac(n, d) == [num |-> n, den |-> d]

\* (df[le_col] - 20) / (85 - 20) where le is present, else NaN
LifeExpectancyIndex(cell) ==
    IF cell.le = Absent THEN Absent
    ELSE Some(Frac(cell.le[1] - 20, 85 - 20))

\* (eys / 18 + mys / 15) / 2 where both are present, else NaN
EducationIndex(cell) ==
    IF cell.eys = Absent \/ cell.mys = Absent THEN Absent
    ELSE Some(Frac(15 * cell.eys[1] + 18 * cell.mys[1], 2 * 18 * 15))

\* (log(gnipc) - log(100)) / (log(75000) - log(100)) where gnipc is present, else NaN
IncomeIndex(cell) ==
    IF cell.gnipc = Absent THEN Absent
    ELSE Some(Frac(Log(cell.gnipc[1]) - Log(100), Log(75000) - Log(100)))

Components == {"life_expectancy_index", "education_index", "income_index"}

\* (col < 0) | (col > 1) for one value of an index column; a NaN compares False
OutOfBounds(v) == v # Absent /\ (v[1].num < 0 \/ v[1].num > v[1].den)

\* The three index columns of year y are computed for every row
ComputeYear ==
    /\ hpc[1] = "compute"
    /\ LET y == hpc[2]
       IN  /\ df' = [c \in Countries |->
                        [df[c] EXCEPT ![y] =
                            [life_expectancy_index |-> LifeExpectancyIndex(@),
                             education_index       |-> EducationIndex(@),
                             income_index          |-> IncomeIndex(@)] @@ @]]
           /\ hpc' = IF y + 1 \in years THEN <<"compute", y + 1>> ELSE <<"check", FirstYear>>
    /\ UNCHANGED <<warned, hdi_processed>>
    /\ UNCHANGED <<fetchVars, runVars, otherVars>>

\* The bounds check of year y: a warning is printed for every component with a value
\* below 0 or above 1; the column is left as it is
CheckYear ==
    /\ hpc[1] = "check"
    /\ LET y == hpc[2]
       IN  /\ warned' = warned \cup
                    {<<comp, y>> : comp \in {k \in Components :
                                        \E c \in Countries : OutOfBounds(df[c][y][k])}}
           /\ hpc' = IF y + 1 \in years THEN <<"check", y + 1>> ELSE <<"write">>
    /\ UNCHANGED <<df, hdi_processed>>
    /\ UNCHANGED <<fetchVars, runVars, otherVars>>

\* df.to_csv("hdi_processed.csv", index=False)
WriteProcessed ==
    /\ hpc[1] = "write"
    /\ hdi_processed' = Some(df)
    /\ hpc' = <<"exit">>
    /\ UNCHANGED <<df, warned>>
    /\ UNCHANGED <<fetchVars, runVars, otherVars>>

\* df = pd.read_csv("HDI.csv")
HdiInit ==
    /\ FetchUnused
    /\ RunUnused
    /\ OthersUnused
    /\ file = Absent
    /\ df \in [Countries -> [years -> Cells]]
    /\ hpc = <<"compute", FirstYear>>
    /\ warned = {}
    /\ hdi_processed = <<>>

HdiNext == ComputeYear \/ CheckYear \/ WriteProcessed

SpecHDI == HdiInit /\ [][HdiNext]_vars

-----------------------------------------------------------------------------
(* One call of detect_sudden_changes(df, "le", threshold_abs, threshold_pct) *)

\* The years y for which df can have a column le_y in the model
AnomYears == {1990, 1991, 1992}

\* The values a country can have in a column; <<>> is NaN. Norway's cover a change of
\* exactly 10 and of exactly a fifth (50 to 60), a value of 0 and a negative value
AnomValues(c) ==
    IF c = "NOR"
        THEN {Absent, Some(0), Some(5), Some(7), Some(50), Some(60), Some(61), Some(-50)}
        ELSE {Absent, Some(50), Some(61)}

\* The data frames: one row per country, the same year columns in every row
AnomFrames ==
    UNION {{[columns |-> cols,
             rows |-> <<[country |-> "NOR", le |-> n], [country |-> "SWE", le |-> w]>>] :
                n \in {f \in [cols -> AnomValues("NOR")] : TRUE},
                w \in {f \in [cols -> AnomValues("SWE")] : TRUE}} :
           cols \in SUBSET AnomYears}

\* threshold_abs=10 as in the call of the module, or None; threshold_pct=0.2, or None
AbsThresholds == {Absent, Some(10)}
PctThresholds == {Absent, Some([num |-> 1, den |-> 5])}

\* sorted(int(c.split("_")[1]) for c in cols)
RECURSIVE Sorted(_)
Sorted(S) ==
    IF S = {} THEN <<>>
    ELSE LET m == CHOOSE x \in S : \A y \in S : x <= y
         IN  <<m>> \o Sorted(S \ {m})

Abs(x) == IF x < 0 THEN -x ELSE x

\* abs_change / v1 if v1 != 0 else np.nan: the quotient kept as a fraction
PctChange(abs_change, v1) ==
    IF v1 # 0 THEN Some([num |-> abs_change, den |-> v1]) ELSE Absent

\* q > t for a fraction q with a denominator other than 0 and a fraction t with a
\* positive denominator
Greater(q, t) ==
    IF q.den > 0 THEN q.num * t.den > t.num * q.den
                 ELSE q.num * t.den < t.num * q.den

\* Mutant: a change equal to a threshold is reported as well
Triggered_Inclusive(abs_change, pct_change) ==
    \/ threshold_abs # Absent /\ abs_change >= threshold_abs[1]
    \/ /\ threshold_pct # Absent
       /\ pct_change # Absent
       /\ ~Greater(threshold_pct[1], pct_change[1])

\* triggered, after the two if statements of lines 51-54
Triggered(abs_change, pct_change) ==
    \/ threshold_abs # Absent /\ abs_change > threshold_abs[1]
    \/ /\ threshold_pct # Absent
       /\ pct_change # Absent
       /\ Greater(pct_change[1], threshold_pct[1])

\* The records the loop  for i in range(len(years) - 1)  appends for one row, from
\* index i on
RECURSIVE RowAnomalies(_, _, _)
RowAnomalies(row, ys, i) ==
    IF i > Len(ys) - 1 THEN <<>>
    ELSE LET y1 == ys[i]
             y2 == ys[i + 1]
             v1 == row.le[y1]
             v2 == row.le[y2]
         IN  IF v1 = Absent \/ v2 = Absent
                THEN RowAnomalies(row, ys, i + 1)
                ELSE LET abs_change == Abs(v2[1] - v1[1])
                         pct_change == PctChange(abs_change, v1[1])
                     IN  (IF Triggered(abs_change, pct_change)
                             THEN <<[country |-> row.country,
                                     year_from |-> y1, year_to |-> y2,
                                     value_before |-> v1[1], value_after |-> v2[1],
                                     abs_change |-> abs_change,
                                     pct_change |-> pct_change]>>
                             ELSE <<>>)
                         \o RowAnomalies(row, ys, i + 1)

\* The list anomalies after the loop  for _, row in df.iterrows(), from row r on
RECURSIVE FrameAnomalies(_, _)
FrameAnomalies(d, r) ==
    IF r > Len(d.rows) THEN <<>>
    ELSE RowAnomalies(d.rows[r], Sorted(d.columns), 1) \o FrameAnomalies(d, r + 1)

\* detect_sudden_changes(df, "le", threshold_abs, threshold_pct) returns
DetectSuddenChanges ==
    /\ dpc = "call"
    /\ anomalies' = FrameAnomalies(anom_df, 1)
    /\ dpc' = "returned"
    /\ UNCHANGED <<anom_df, threshold_abs, threshold_pct>>
    /\ UNCHANGED <<fetchVars, runVars, hdiVars, catalogVars, appVars>>

AnomInit ==
    /\ anom_df \in AnomFrames
    /\ threshold_abs \in AbsThresholds
    /\ threshold_pct \in PctThresholds
    /\ anomalies = <<>>
    /\ dpc = "call"
    /\ FetchUnused
    /\ RunUnused
    /\ file = Absent
    /\ HdiUnused
    /\ CatalogUnused
    /\ AppUnused

AnomNext == DetectSuddenChanges

SpecAnomalies == AnomInit /\ [][AnomNext]_vars

-----------------------------------------------------------------------------
(* Runs of sensors_fetcher.py on one sensors.csv *)

\* locations a response carries at most, and rows sensors.csv holds at most, in the model
MaxLocations == 2
MaxCatalogRows == 3

valid_pollutants == {"pm10", "pm25", "o3", "no2", "co", "so2"}

\* The first year whose readings make a location current
current_year == 2025

\* str.lower() on the parameter names of the model
Lower(name) ==
    CASE name = "PM25" -> "pm25"
      [] name = "O3" -> "o3"
      [] OTHER -> name

\* A location of the response; datetimeFirst and datetimeLast are null (<<>>) or carry
\* a UTC timestamp, of which the model keeps the year
Location(first, last_, sensors) ==
    [country |-> "Denmark", latitude |-> 56176, longitude |-> 10171,
     datetimeFirst |-> first, datetimeLast |-> last_, sensors |-> sensors]

Sensor(id, name, units) == [id |-> id, name |-> name, units |-> units]

\* The locations the API can report in the model
CatalogLocations ==
    { Location(Some(2020), Some(2025),
               <<Sensor(1, "PM25", "ug/m3"), Sensor(2, "temperature", "c")>>),
      Location(Some(2019), Some(2024), <<Sensor(3, "o3", "ug/m3")>>),
      Location(Absent, Some(2025), <<Sensor(4, "no2", "ug/m3")>>),
      Location(Some(2021), Absent, <<Sensor(5, "co", "ug/m3")>>),
      Location(Some(2022), Some(2026),
               <<Sensor(6, "so2", "ug/m3"), Sensor(7, "pm10", "ug/m3")>>),
      Location(Some(2023), Some(2025), <<>>) }

\* response.json(): with a list "results", or (an error body) without the key
Responses ==
    {[results |-> Absent]} \cup
    {[results |-> Some(l)] : l \in SeqsUpTo(CatalogLocations, MaxLocations)}

\* response.json().get("results", [])
ResultsOf(r) == IF r.results = Absent THEN <<>> ELSE r.results[1]

\* The header row of sensors.csv
CatalogHeader ==
    [header |-> <<"sensor_id", "country", "latitude", "longitude", "pollutant_type",
                  "first_reading", "last_reading", "unit">>]

\* A sensors.csv that was made with its header row
HeadedCatalog ==
    << CatalogHeader,
       [sensor_id |-> 9, country |-> "Denmark", latitude |-> 56176, longitude |-> 10171,
        pollutant_type |-> "pm10", first_reading |-> 2020, last_reading |-> 2025,
        unit |-> "ug/m3"] >>

\* The row written for a sensor of a location
CatalogRow(location, sensor) ==
    [sensor_id |-> sensor.id, country |-> location.country,
     latitude |-> location.latitude, longitude |-> location.longitude,
     pollutant_type |-> Lower(sensor.name),
     first_reading |-> location.datetimeFirst[1],
     last_reading |-> location.datetimeLast[1], unit |-> sensor.units]

\* Mutant: the parameter name is tested as the API spells it
Accepted_CaseSensitive(sensor) == sensor.name \in valid_pollutants

\* not (pollutant_type not in valid_pollutants), pollutant_type being the lowered name
Accepted(sensor) == Lower(sensor.name) \in valid_pollutants

\* The continue statements of lines 38-39 and 43-44
Skipped(location) ==
    \/ location.datetimeFirst = Absent
    \/ location.datetimeLast = Absent
    \/ location.datetimeLast[1] < current_year

\* The rows one pass of the for loop of line 34 writes
LocationRows(location) ==
    IF Skipped(location) THEN <<>>
    ELSE LET kept == SelectSeq(location.sensors, Accepted)
         IN  [i \in DOMAIN kept |-> CatalogRow(location, kept[i])]

\* The rows the for loop of line 34 writes for the locations locs
RECURSIVE AllRows(_)
AllRows(locs) ==
    IF locs = <<>> THEN <<>> ELSE LocationRows(Head(locs)) \o AllRows(Tail(locs))

\* The rows sensors.csv holds (none when it does not exist)
CatalogRows(f) == IF f = Absent THEN <<>> ELSE f[1]

\* The script is started: requests.get(BASE_URL + "locations", ...) returns
SensorsGet ==
    /\ spc \in {"start", "exit"}
    /\ \E r \in Responses :
        /\ Len(CatalogRows(sensors_csv)) + Len(AllRows(ResultsOf(r))) <= MaxCatalogRows
        /\ response' = r
    /\ old_csv' = sensors_csv
    /\ printed' = Absent
    /\ nrows' = 0
    /\ loc_pos' = 1
    /\ spc' = "open"
    /\ UNCHANGED sensors_csv
    /\ UNCHANGED <<fetchVars, runVars, hdiVars, anomVars, appVars>>

\* open(DATA_ROOT + "sensors.csv", "a", ...): the file is created when it does not
\* exist; rows = 0
SensorsOpen ==
    /\ spc = "open"
    /\ sensors_csv' = IF sensors_csv = Absent THEN Some(<<>>) ELSE sensors_csv
    /\ nrows' = 0
    /\ spc' = "header"
    /\ UNCHANGED <<response, printed, loc_pos, old_csv>>
    /\ UNCHANGED <<fetchVars, runVars, hdiVars, anomVars, appVars>>

\* if not os.path.isfile(DATA_ROOT + "sensors.csv"): writer.writerow([...])
SensorsHeader ==
    /\ spc = "header"
    /\ sensors_csv' = IF sensors_csv = Absent
                         THEN Some(<<CatalogHeader>>)
                         ELSE sensors_csv
    /\ spc' = IF ResultsOf(response) = <<>> THEN "print" ELSE "loop"
    /\ UNCHANGED <<response, nrows, printed, loc_pos, old_csv>>
    /\ UNCHANGED <<fetchVars, runVars, hdiVars, anomVars, appVars>>

\* One pass of  for location in response.json().get("results", [])
SensorsLocation ==
    /\ spc = "loop"
    /\ LET written == LocationRows(ResultsOf(response)[loc_pos])
       IN  /\ sensors_csv' = Some(sensors_csv[1] \o written)
           /\ nrows' = nrows + Len(written)
    /\ loc_pos' = loc_pos + 1
    /\ spc' = IF loc_pos + 1 > Len(ResultsOf(response)) THEN "print" ELSE "loop"
    /\ UNCHANGED <<response, printed, old_csv>>
    /\ UNCHANGED <<fetchVars, runVars, hdiVars, anomVars, appVars>>

\* print(f"Saved rows: {rows}"); the file is closed and the script ends
SensorsPrint ==
    /\ spc = "print"
    /\ printed' = Some(nrows)
    /\ spc' = "exit"
    /\ UNCHANGED <<sensors_csv, response, nrows, loc_pos, old_csv>>
    /\ UNCHANGED <<fetchVars, runVars, hdiVars, anomVars, appVars>>

SensorsInit ==
    /\ sensors_csv \in {Absent, Some(HeadedCatalog)}
    /\ response = <<>>
    /\ nrows = 0
    /\ printed = Absent
    /\ spc = "start"
    /\ loc_pos = 1
    /\ old_csv = Absent
    /\ FetchUnused
    /\ RunUnused
    /\ file = Absent
    /\ HdiUnused
    /\ AnomUnused
    /\ AppUnused

SensorsNext ==
    \/ SensorsGet
    \/ SensorsOpen
    \/ SensorsHeader
    \/ SensorsLocation
    \/ SensorsPrint

SpecSensors == SensorsInit /\ [][SensorsNext]_vars

-----------------------------------------------------------------------------
(* One browser session of app.py: the multiselects of the Component Comparison tab
   ("radar") and of the Temporal Trends tab ("temporal") *)

\* selection changes followed in the model
MaxChanges == 3

max_selections == 5

\* sorted(df["country"].unique()) in the model
AppCountries == {"NOR", "SWE"}

\* The values a multiselect can hold: lists of distinct countries in the order chosen
Selections ==
    {sel \in SeqsUpTo(AppCountries, Cardinality(AppCountries)) :
        /\ Len(sel) <= max_selections
        /\ \A i, j \in DOMAIN sel : i # j => sel[i] # sel[j]}

Multiselects == {"radar", "temporal"}

SliderYears == {2022, 2023}

\* Mutant: the keys do not carry the counter
WidgetKey_Static(w) == <<w, 0>>

\* f"country_filter_radar_{st.session_state.sync_key_counter}" and its temporal twin
WidgetKey(w) == <<w, sync_key_counter>>

\* What st.multiselect(..., default=st.session_state.selected_countries, key=...)
\* returns in a script run: the value session_state holds for the key, or, the key
\* being new, the default
Rendered(w) ==
    IF WidgetKey(w) \in DOMAIN widget_state
        THEN widget_state[WidgetKey(w)]
        ELSE selected_countries

\* A script run, first line to last: both multiselects are built; session_state keeps
\* the values of the widgets built in this run and drops the keys of the others; the
\* browser shows the widgets built
AppRun ==
    /\ apc = "rerun"
    /\ widget_state' = [k \in {WidgetKey(w) : w \in Multiselects} |->
                            Rendered(CHOOSE w \in Multiselects : WidgetKey(w) = k)]
    /\ shown' = [w \in Multiselects |-> [key |-> WidgetKey(w), value |-> Rendered(w)]]
    /\ apc' = "idle"
    /\ UNCHANGED <<selected_countries, sync_key_counter, last_change, year_radar>>
    /\ UNCHANGED <<fetchVars, runVars, hdiVars, anomVars, catalogVars>>

\* The user changes the selection of multiselect w to sel: session_state takes the new
\* value under the key of the widget shown, on_change runs
\* update_selected_countries(key), and a script run is due
AppSelect(w, sel) ==
    /\ apc \in {"idle", "rerun"}
    /\ w \in DOMAIN shown
    /\ sync_key_counter < MaxChanges
    /\ sel # shown[w].value
    /\ LET key == shown[w].key
           state == (key :> sel) @@ widget_state
       IN  /\ widget_state' = state
           /\ selected_countries' = state[key]
    /\ sync_key_counter' = sync_key_counter + 1
    /\ shown' = [shown EXCEPT ![w].value = sel]
    /\ last_change' = Some(sel)
    /\ apc' = "rerun"
    /\ UNCHANGED year_radar
    /\ UNCHANGED <<fetchVars, runVars, hdiVars, anomVars, catalogVars>>

\* The user moves the year slider of the Component Comparison tab: a script run is
\* due, no callback runs
AppSlide(y) ==
    /\ apc \in {"idle", "rerun"}
    /\ shown # <<>>
    /\ y # year_radar
    /\ year_radar' = y
    /\ apc' = "rerun"
    /\ UNCHANGED <<selected_countries, sync_key_counter, widget_state, shown, last_change>>
    /\ UNCHANGED <<fetchVars, runVars, hdiVars, anomVars, catalogVars>>

\* The session is opened: session_state is empty, lines 73-76 are about to set
\* selected_countries = [] and sync_key_counter = 0 in the first script run
AppInit ==
    /\ selected_countries = <<>>
    /\ sync_key_counter = 0
    /\ widget_state = <<>>
    /\ shown = <<>>
    /\ apc = "rerun"
    /\ last_change = Absent
    /\ year_radar = 2023
    /\ FetchUnused
    /\ RunUnused
    /\ file = Absent
    /\ HdiUnused
    /\ AnomUnused
    /\ CatalogUnused

AppNext ==
    \/ AppRun
    \/ \E w \in Multiselects : \E sel \in Selections : AppSelect(w, sel)
    \/ \E y \in SliderYears : AppSlide(y)

SpecApp == AppInit /\ [][AppNext]_vars

-----------------------------------------------------------------------------
(* Properties of fetch_measurements, checked under SpecFetch *)

Range(s) == {s[i] : i \in DOMAIN s}

Count(s, x) == Cardinality({i \in DOMAIN s : s[i] = x})

\* The step is a call of session.get
Requested == requests' # requests

\* The requests of the current for loop: one per outcome in last
LoopRequests == SubSeq(requests, Len(requests) - Len(last) + 1, Len(requests))

\* The state after a failed attempt of the kinds in S, the n-th of its for loop: the
\* delay was 2^(n-1) seconds; below the ceiling the same page is about to be requested
\* again as attempt n, at the ceiling the fetch has returned
RetriedWithBackoff(S) ==
    (last # <<>> /\ Last(last) \in S) =>
        LET n == Len(last)
        IN  /\ n <= 5
            /\ sleeps # <<>> /\ Last(sleeps) = 2 ^ (n - 1)
            /\ Range(LoopRequests) = {Last(requests)}
            /\ n < 5 => fpc = "request" /\ page = Last(requests) /\ attempt = n
            /\ n = 5 => fpc = "returned"

\* A failed attempt of the kinds in S leaves the accumulated records alone
KeepsRecords(S) ==
    (Requested /\ Last(last') \in S) => all_results' = all_results

\* Once the fetch has returned it issues no request and its result stays what it is
ReturnIsFinal ==
    fpc = "returned" => requests' = requests /\ all_results' = all_results

\* C1: every record fetch_measurements returns (every element of all_results, at every
\* moment of the call) has a reading_datetime whose UTC hour of day is 0, 6, 12 or 18.
C1_SamplingHoursOnly ==
    \A i \in DOMAIN all_results :
        (all_results[i].reading_datetime % 24) \in {0, 6, 12, 18}

\* The fetch returned records although the API served a result of another hour
C1_Witness ==
    /\ fpc = "returned"
    /\ all_results # <<>>
    /\ \E i \in DOMAIN served : (served[i].utc % 24) \notin {0, 6, 12, 18}

\* C2: a page answered 408 or 429 is requested again after 2^attempt seconds, up to
\* max_retries attempts; after the last one the fetch issues no further request and
\* returns the records accumulated from the pages fetched before.
C2_RetryTimeoutAndRateLimit ==
    /\ [](RetriedWithBackoff({"408", "429"}))
    /\ [][KeepsRecords({"408", "429"}) /\ ReturnIsFinal]_vars

\* Five attempts on a later page all failed with 408 or 429; the fetch returned the
\* records of the pages before
C2_Witness ==
    /\ fpc = "returned"
    /\ Len(last) = 5
    /\ Range(last) \subseteq {"408", "429"}
    /\ Len(requests) > 5
    /\ all_results # <<>>
    /\ SubSeq(sleeps, Len(sleeps) - 4, Len(sleeps)) = <<1, 2, 4, 8, 16>>

\* C3: a page answered with a status other than 200, 408 or 429 ends the fetch at once:
\* no delay, no retry, no later page, and the accumulated records are returned unchanged.
C3_OtherStatusAbandons ==
    /\ []((last # <<>> /\ Last(last) \notin {"200", "408", "429", "RequestException"})
            => fpc = "returned")
    /\ [][/\ (Requested /\ Last(last') \notin {"200", "408", "429", "RequestException"})
                => all_results' = all_results /\ sleeps' = sleeps
          /\ ReturnIsFinal]_vars

\* A page after the first was answered 500 on a retry; the fetch returned the records
\* it had
C3_Witness ==
    /\ fpc = "returned"
    /\ Len(last) >= 2
    /\ Last(last) = "500"
    /\ Len(requests) > Len(last)
    /\ all_results # <<>>

\* C4: a RequestException of session.get is treated as a 408 or 429 is: the same page
\* again after 2^attempt seconds, counted against the same ceiling of the page, and at
\* the ceiling the fetch returns its records (it never raises).
C4_NetworkErrorRetried ==
    /\ [](/\ RetriedWithBackoff({"RequestException"})
          /\ fpc \in {"request", "returned"})
    /\ [][KeepsRecords({"RequestException"}) /\ ReturnIsFinal]_vars

\* The ceiling was reached by exceptions and error statuses together, the last an
\* exception, and the fetch returned the records of the pages before
C4_Witness ==
    /\ fpc = "returned"
    /\ Len(last) = 5
    /\ Last(last) = "RequestException"
    /\ "429" \in Range(last)
    /\ all_results # <<>>

\* The page the API reported for a request of page p
ReportedPage(p) == IF api.page = "first" THEN 1 ELSE p

\* C5: page 1 is requested first; a 200 page with no results, or with
\* page * limit >= found, is the last request, any other 200 page is followed by
\* page + 1 (the page requested, for an API that echoes it); an API reporting
\* found = 2500 and limit = 1000 and echoing the page is asked for pages 1, 2, 3 and no
\* other.
C5_Pagination ==
    /\ [](/\ requests # <<>> => requests[1] = 1
          /\ (api.page = "echo" /\ api.limit = <<1000>> /\ api.found = <<2500>>)
                => Range(requests) \subseteq {1, 2, 3})
    /\ [][(Requested /\ Last(last') = "200") =>
            LET n == Len(served') - Len(served)
                pg == ReportedPage(page)
                limit == IF api.limit = <<>> THEN n ELSE api.limit[1]
                found == IF api.found = <<>> THEN 0 ELSE api.found[1]
                stop == n = 0 \/ pg * limit >= found
            IN  /\ stop => fpc' = "returned"
                /\ ~stop => fpc' = "request" /\ page' = pg + 1
                /\ (api = [page |-> "echo", limit |-> <<1000>>, found |-> <<2500>>]
                        /\ stop /\ n > 0)
                     => Range(requests') = {1, 2, 3}]_vars

\* That API answered three pages with results, and the fetch returned
C5_Witness ==
    /\ api = [page |-> "echo", limit |-> <<1000>>, found |-> <<2500>>]
    /\ fpc = "returned"
    /\ Last(last) = "200"
    /\ Range(requests) = {1, 2, 3}
    /\ Len(served) >= 3

\* C6 as stated: a measurement that the API returns on two pages of one fetch appears
\* once in the list returned.
C6_Deduplicated ==
    fpc = "returned" =>
        \A i, j \in DOMAIN all_results : i # j => all_results[i] # all_results[j]

\* C6 as amended: the list holds one record for every sampling-hour result of every
\* processed page: a measurement the API returned k times appears k times.
C6_EveryServedResultKept ==
    \A m \in Measurements :
        Count(all_results,
              [reading_datetime |-> m.utc, sensor_id |-> sensor_id,
               reading_value |-> m.value])
          = IF (m.utc % 24) \in {0, 6, 12, 18} THEN Count(served, m) ELSE 0

\* The fetch returned a list that holds one measurement twice
C6_Witness ==
    /\ fpc = "returned"
    /\ \E i, j \in DOMAIN all_results : i # j /\ all_results[i] = all_results[j]

\* C7: a page answered 429, 429 and then 200 is processed at its third request, after
\* two delays, of 1 and then 2 seconds (2^attempt, attempt counted from 0).
C7_TwoRetriesThenSuccess ==
    /\ [](last = <<"429", "429", "200">> =>
            /\ Len(requests) >= 3 /\ Len(sleeps) >= 2
            /\ Range(LoopRequests) = {Last(requests)}
            /\ SubSeq(sleeps, Len(sleeps) - 1, Len(sleeps)) = <<1, 2>>
            /\ Len(requests) = 3 => requests = <<1, 1, 1>> /\ sleeps = <<1, 2>>)
    /\ [][(Requested /\ last' = <<"429", "429", "200">>) =>
            /\ sleeps' = sleeps
            /\ attempt = 2
            /\ Len(all_results') - Len(all_results) =
                 Cardinality({i \in DOMAIN served' :
                                /\ i > Len(served)
                                /\ (served'[i].utc % 24) \in {0, 6, 12, 18}})]_vars

\* The first page was answered 429, 429, 200 and its results were recorded
C7_Witness ==
    /\ last = <<"429", "429", "200">>
    /\ requests = <<1, 1, 1>>
    /\ sleeps = <<1, 2>>
    /\ all_results # <<>>

-----------------------------------------------------------------------------
(* Properties of fetch_weather and its callers, checked under Spec *)

\* The key of the weather that belongs to row r of task t
RowKey(t, r) ==
    << (sensors_df[t].latitude + 5) \div 10, (sensors_df[t].longitude + 5) \div 10,
       1735689600 + 3600 * r.reading_datetime >>

\* The weather attached to a row
WeatherPart(r) == [wind_speed |-> r.wind_speed, rain |-> r.rain, temp |-> r.temp]

\* The rows of task t whose lookup has returned
Enriched(t) == {i \in DOMAIN results[t] : i < pos[t]}

\* A lookup of key k has returned
Returned(k) == \E t \in Tasks : \E i \in Enriched(t) : RowKey(t, results[t][i]) = k

\* The lookups of key k started so far
LookupsStarted(k) ==
    {<<t, i>> \in Tasks \X (1 .. MaxRows + 1) :
        /\ i \in DOMAIN results[t]
        /\ i < pos[t] \/ (i = pos[t] /\ tpc[t] \in {"calling", "raised"})
        /\ RowKey(t, results[t][i]) = k}

\* Task t starts a lookup in this step and the lookup returns in it
LooksUp(t) == tpc[t] = "lookup" /\ pos'[t] = pos[t] + 1

\* requests.get of task t returns in this step
GetsResponse(t) == tpc[t] = "calling" /\ pos'[t] = pos[t] + 1

\* C8 as stated: once a lookup of a key has returned, no remote call is issued for that
\* key again, whatever was looked up in between.
C8_NeverCalledAgain ==
    [][\A k \in DOMAIN calls : Returned(k) => calls'[k] = calls[k]]_vars

\* C8 as amended: the memo is a cache of at most maxsize keys. The key of a lookup that
\* returns is in the cache; a lookup of a key in the cache returns the cached record
\* and issues no remote call; a key leaves the cache only when the cache is full.
C8_MemoizedWhileCached ==
    /\ [](Len(cache) <= maxsize)
    /\ [][/\ \A k \in DOMAIN calls :
                /\ k \in CacheKeys(cache) => calls'[k] = calls[k]
                /\ (k \in CacheKeys(cache) /\ k \notin CacheKeys(cache'))
                      => Len(cache) = maxsize /\ Len(cache') = maxsize
          /\ \A t \in Tasks :
                LET k == RowKey(t, results[t][pos[t]])
                IN  /\ (LooksUp(t) \/ GetsResponse(t)) => k \in CacheKeys(cache')
                    /\ LooksUp(t) =>
                          \E i \in DOMAIN cache :
                              /\ cache[i].key = k
                              /\ cache[i].value = WeatherPart(results'[t][pos[t]])]_vars

\* Two rows of different sensors share a key, both are enriched, the key was called
\* once
C8_Witness ==
    /\ sensors_df = NearbySensors
    /\ \E i \in Enriched(1), j \in Enriched(2) :
        /\ RowKey(1, results[1][i]) = RowKey(2, results[2][j])
        /\ calls[RowKey(1, results[1][i])] = 1
        /\ WeatherPart(results[1][i]) = WeatherPart(results[2][j])
        /\ WeatherPart(results[1][i]).temp # 999

\* The records fetch_weather can make of a response of the remote API for key k
PossibleRecords(k) == {WeatherOf(r) : r \in WeatherResponses(k)}

\* C9: whatever the interleaving of the worker threads, every record a thread receives
\* and attaches is made of a response of the remote API for the key of that row, the
\* cache maps every key to such a record, the rows keep their own measurement, and a
\* lookup issues at most one remote call (a race only duplicates the call).
C9_RaceOnlyDuplicatesCall ==
    /\ \A t \in Tasks : \A i \in Enriched(t) :
            WeatherPart(results[t][i]) \in PossibleRecords(RowKey(t, results[t][i]))
    /\ \A t \in Tasks : \A i \in DOMAIN results[t] :
            /\ results[t][i].sensor_id = sensors_df[t].sensor_id
            /\ results[t][i].reading_datetime \in {6, 24}
    /\ \A i \in DOMAIN all_data : \E t \in Tasks :
            /\ all_data[i].sensor_id = sensors_df[t].sensor_id
            /\ WeatherPart(all_data[i]) \in PossibleRecords(RowKey(t, all_data[i]))
    /\ \A i, j \in DOMAIN cache :
            /\ cache[i].value \in PossibleRecords(cache[i].key)
            /\ i # j => cache[i].key # cache[j].key
    /\ \A k \in DOMAIN calls : calls[k] <= Cardinality(LookupsStarted(k))

\* Both threads called the remote API for the same key, the only key of the run, and
\* received different records
C9_Witness ==
    /\ tpc = <<"done", "done">>
    /\ Len(results[1]) = 1 /\ Len(results[2]) = 1
    /\ RowKey(1, results[1][1]) = RowKey(2, results[2][1])
    /\ calls[RowKey(1, results[1][1])] = 2
    /\ WeatherPart(results[1][1]) # WeatherPart(results[2][1])

\* The response is one fetch_weather answers with the sentinel
Missing(r) == r.status \notin {"200", "RequestException"} \/ (r.status = "200" /\ r.list = <<>>)

\* C10: a remote call answered with a status other than 200, or with 200 and an empty
\* list, makes the lookup return {wind_speed: 0, rain: 0, temp: 999}, which is attached
\* to the measurement; the task goes on (no exception), and no second call is issued.
C10_SentinelOnMissingWeather ==
    /\ [](\A t \in Tasks : tpc[t] = "raised" => resp[t].status = "RequestException")
    /\ [](\A k \in DOMAIN calls : calls[k] <= Cardinality(LookupsStarted(k)))
    /\ [][\A t \in Tasks :
            (tpc[t] = "calling" /\ tpc'[t] # "calling" /\ Missing(resp'[t])) =>
                /\ GetsResponse(t)
                /\ tpc'[t] \in {"lookup", "done"}
                /\ results'[t][pos[t]] =
                     [reading_datetime |-> results[t][pos[t]].reading_datetime,
                      sensor_id |-> results[t][pos[t]].sensor_id,
                      reading_value |-> results[t][pos[t]].reading_value,
                      wind_speed |-> 0, rain |-> 0, temp |-> 999]
                /\ calls' = calls]_vars

\* A task received 500 for its last row and finished; its rows, the sentinel among
\* them, are in the table
C10_Witness ==
    /\ mpc = "exit"
    /\ \E t \in Tasks :
        /\ tpc[t] = "done"
        /\ resp[t].status = "500"
        /\ results[t] # <<>>
        /\ WeatherPart(Last(results[t])) = [wind_speed |-> 0, rain |-> 0, temp |-> 999]
        /\ calls[RowKey(t, Last(results[t]))] = 1
        /\ \E i \in DOMAIN all_data : all_data[i] = Last(results[t])

-----------------------------------------------------------------------------
(* Properties of one run of the script, checked under Spec *)

\* The rows of list s that carry sensor id sid, in their order in s
RowsOf(s, sid) ==
    LET OfSensor(r) == r.sensor_id = sid
    IN  SelectSeq(s, OfSensor)

\* The lines the run appended to the lines the file held before it
Appended == SubSeq(file[1], Len(file[1]) - Len(all_data) + 1, Len(file[1]))

\* Some uncollected task can take its next step or be collected
SomeTaskCanMove ==
    \E t \in Tasks \ collected :
        \/ tpc[t] \in {"fetch", "lookup", "calling", "done", "raised"}
        \/ /\ tpc[t] = "pending"
           /\ Cardinality({u \in Tasks : tpc[u] \in {"fetch", "lookup", "calling"}}) < 5

\* C11: an exception raised inside the task of a sensor is caught by the main thread,
\* which goes on collecting (it never crashes on it) and saves; the sensor has no row in
\* what the run appends; the step that raises changes no other task, no task is left
\* unable to go on, and every task that returned has all its rows, in order, in the
\* rows the run appends to the file.
C11_PartialFailureIsolation ==
    /\ [](mpc = "collect" => SomeTaskCanMove)
    /\ [](mpc = "exit" =>
            /\ \A t \in Tasks : tpc[t] \in {"done", "raised"}
            /\ \A t \in Tasks : tpc[t] = "raised" =>
                    RowsOf(Appended, sensors_df[t].sensor_id) = <<>>
            /\ \A t \in Tasks : tpc[t] = "done" =>
                    RowsOf(Appended, sensors_df[t].sensor_id) = results[t])
    /\ [][\A t \in Tasks :
            /\ (tpc[t] # "raised" /\ tpc'[t] = "raised") =>
                    /\ mpc' = mpc /\ all_data' = all_data
                    /\ \A u \in Tasks \ {t} : tpc'[u] = tpc[u] /\ results'[u] = results[u]
            /\ (tpc[t] = "raised" /\ t \notin collected /\ t \in collected') =>
                    /\ all_data' = all_data
                    /\ mpc' \in {"collect", "save"}]_vars

\* The task of sensor 101 raised at its second row, after its first row was enriched;
\* the run saved the two rows of sensor 102 and no row of sensor 101
C11_Witness ==
    /\ mpc = "exit"
    /\ sensors_df = NearbySensors
    /\ tpc = <<"raised", "done">>
    /\ Len(results[1]) = 2 /\ pos[1] = 2
    /\ Len(results[2]) = 2
    /\ Appended = results[2]

\* C12 as stated: a task whose measurement fetch was abandoned is dropped wholesale: its
\* sensor has no row in what the run appends to the output table.
C12_AbandonedIsDropped ==
    mpc = "exit" =>
        \A t \in Tasks : fetched[t].abandoned =>
            RowsOf(Appended, sensors_df[t].sensor_id) = <<>>

\* The steps of a task: pending, fetching measurements, fetching weather (looking up,
\* calling the remote API), then done, or raised out of a remote weather call
TaskSteps ==
    { <<"pending", "fetch">>, <<"fetch", "lookup">>, <<"fetch", "done">>,
      <<"lookup", "calling">>, <<"lookup", "done">>, <<"calling", "lookup">>,
      <<"calling", "done">>, <<"calling", "raised">> }

\* C12 as amended: a task goes pending -> fetching measurements -> fetching weather ->
\* done, and ends failed only by an exception. An abandoned measurement fetch does not
\* fail the task: the task goes on with the records accumulated before the fetch was
\* given up, and they are merged like those of any other task. A task is merged whole
\* or not at all: the rows of a sensor in all_data are all the rows of its task once it
\* is done and collected, and none before that or when it failed.
C12_AbandonedFetchIsMerged ==
    /\ [](\A t \in Tasks :
            RowsOf(all_data, sensors_df[t].sensor_id) =
                IF t \in collected /\ tpc[t] = "done" THEN results[t] ELSE <<>>)
    /\ [](mpc = "exit" =>
            \A t \in Tasks :
                /\ tpc[t] \in {"done", "raised"}
                /\ RowsOf(Appended, sensors_df[t].sensor_id) =
                      IF tpc[t] = "done" THEN results[t] ELSE <<>>)
    /\ [][\A t \in Tasks :
            /\ tpc'[t] # tpc[t] => <<tpc[t], tpc'[t]>> \in TaskSteps
            /\ (tpc[t] = "fetch" /\ tpc'[t] # "fetch") =>
                  /\ Len(results'[t]) = Len(fetched'[t].sampled)
                  /\ tpc'[t] = IF results'[t] = <<>> THEN "done" ELSE "lookup"]_vars

\* The fetch of sensor 101 was abandoned after a page with a sampling-hour result; the
\* task finished and its row is in the file
C12_Witness ==
    /\ mpc = "exit"
    /\ sensors_df = NearbySensors
    /\ fetched[1].abandoned
    /\ tpc[1] = "done"
    /\ results[1] # <<>>
    /\ RowsOf(Appended, 101) = results[1]

\* The tasks that a worker thread is executing
InFlight == {t \in DOMAIN tpc : tpc[t] \in {"fetch", "lookup", "calling"}}

\* C13: there is one task per row of the sensor catalog, each is started once, and at
\* every moment at most min(5, number of rows) of them are executing.
C13_BoundedPool ==
    /\ [](/\ DOMAIN tpc = 1 .. Len(sensors_df)
          /\ Cardinality(InFlight) <= (IF Len(sensors_df) < 5 THEN Len(sensors_df) ELSE 5)
          /\ mpc = "start" => InFlight = {}
          /\ mpc = "exit" => \A t \in DOMAIN tpc : tpc[t] \in {"done", "raised"})
    /\ [][\A t \in DOMAIN tpc :
            (tpc'[t] = "fetch" /\ tpc[t] # "fetch") => tpc[t] = "pending"]_vars

\* Six sensors: five tasks are executing, the sixth waits for a worker
C13_Witness ==
    /\ Len(sensors_df) = 6
    /\ Cardinality(InFlight) = 5
    /\ tpc[6] = "pending"

\* The lines a file of the earlier run holds
EarlierLines ==
    << [header |-> {"reading_datetime", "sensor_id", "reading_value", "wind_speed",
                    "rain", "temp"}],
       [reading_datetime |-> 0, sensor_id |-> 101, reading_value |-> 5,
        wind_speed |-> 0, rain |-> 0, temp |-> 999] >>

\* C14: the output file changes in one step only, taken when every task has returned
\* or raised and has been collected; that step leaves the lines the file held as they
\* were and puts the rows of the run (all_data, in order) after them; before it the
\* file is as the run found it, after it the file stays as it is.
C14_SingleAppendAfterAllTasks ==
    /\ [](/\ mpc \in {"start", "collect", "save", "crashed"} =>
                file = <<>> \/ file = <<EarlierLines>>
          /\ mpc = "exit" =>
                /\ file # <<>>
                /\ Len(file[1]) >= Len(all_data)
                /\ Appended = all_data)
    /\ [][file' # file =>
            /\ mpc = "save" /\ mpc' = "exit"
            /\ \A t \in DOMAIN tpc : tpc[t] \in {"done", "raised"} /\ t \in collected
            /\ all_data' = all_data
            /\ file # <<>> => file'[1] = file[1] \o all_data
            /\ file = <<>> => Tail(file'[1]) = all_data]_vars

\* The run found the file of an earlier run and appended the rows of two tasks to it
C14_Witness ==
    /\ mpc = "exit"
    /\ Len(all_data) >= 3
    /\ file[1] = EarlierLines \o all_data
    /\ \E i, j \in DOMAIN all_data : all_data[i].sensor_id # all_data[j].sensor_id

\* C17 as stated: every row the run appends to the output file has the columns
\* reading_datetime, sensor_id, reading_value, wind_speed, rain and no other.
C17_FiveColumns ==
    mpc = "exit" =>
        \A i \in DOMAIN Appended :
            DOMAIN Appended[i] =
                {"reading_datetime", "sensor_id", "reading_value", "wind_speed", "rain"}

\* C17 as amended: every row the run appends has the columns reading_datetime,
\* sensor_id, reading_value, wind_speed, rain and temp, and a header line written with
\* rows names these six; the step that enriches a row of three columns adds the other
\* three to it.
C17_SixColumns ==
    /\ [](/\ \A i \in DOMAIN all_data :
                DOMAIN all_data[i] = {"reading_datetime", "sensor_id", "reading_value",
                                      "wind_speed", "rain", "temp"}
          /\ mpc = "exit" =>
              /\ \A i \in DOMAIN Appended :
                    DOMAIN Appended[i] = {"reading_datetime", "sensor_id", "reading_value",
                                          "wind_speed", "rain", "temp"}
              /\ \A i \in DOMAIN file[1] :
                    ("header" \in DOMAIN file[1][i]
                        /\ (all_data # <<>> \/ i < Len(file[1]))) =>
                        file[1][i].header = {"reading_datetime", "sensor_id",
                                             "reading_value", "wind_speed", "rain", "temp"})
    /\ [][\A t \in Tasks :
            pos'[t] = pos[t] + 1 =>
                /\ DOMAIN results[t][pos[t]] =
                        {"reading_datetime", "sensor_id", "reading_value"}
                /\ DOMAIN results'[t][pos[t]] =
                        {"reading_datetime", "sensor_id", "reading_value",
                         "wind_speed", "rain", "temp"}]_vars

\* A new file was written: its header and a row with a temperature the weather API gave
C17_Witness ==
    /\ mpc = "exit"
    /\ all_data # <<>>
    /\ Len(file[1]) = 1 + Len(all_data)
    /\ "header" \in DOMAIN file[1][1]
    /\ "temp" \in file[1][1].header
    /\ \E i \in DOMAIN Appended : Appended[i].temp # 999

\* The instants of the rows of list s, in order
InstantsOf(s) == [i \in DOMAIN s |-> s[i].reading_datetime]

\* The instants of the results in list s, in order
ServedInstants(s) == [i \in DOMAIN s |-> s[i].utc]

Ascending(s) == \A i, j \in DOMAIN s : i < j => s[i] <= s[j]

\* C18: the rows of a sensor, in the list of its task, in all_data and in the lines the
\* run appends, are those of the sampling-hour results the measurement API served, in
\* the order in which it served them, whichever task is collected first; they ascend
\* in time when what the API served does.  A collection leaves the rows all_data holds
\* where they are.
C18_SensorRowsInApiOrder ==
    /\ [](\A t \in Tasks :
            LET sid == sensors_df[t].sensor_id
                served_instants == ServedInstants(fetched[t].sampled)
            IN  /\ tpc[t] \in {"lookup", "calling", "done", "raised"} =>
                        InstantsOf(results[t]) = served_instants
                /\ (t \in collected /\ tpc[t] = "done") =>
                        /\ InstantsOf(RowsOf(all_data, sid)) = served_instants
                        /\ Ascending(served_instants)
                              => Ascending(InstantsOf(RowsOf(all_data, sid)))
                /\ (mpc = "exit" /\ tpc[t] = "done") =>
                        InstantsOf(RowsOf(Appended, sid)) = served_instants)
    /\ [][/\ Len(all_data') >= Len(all_data)
          /\ SubSeq(all_data', 1, Len(all_data)) = all_data]_vars

\* The task submitted second was collected first; the API served the measurements of
\* sensor 102 latest first and those of sensor 101 earliest first, and so they are saved
C18_Witness ==
    /\ mpc = "exit"
    /\ sensors_df = NearbySensors
    /\ ServedInstants(fetched[1].sampled) = <<6, 24>>
    /\ ServedInstants(fetched[2].sampled) = <<24, 6>>
    /\ InstantsOf(Appended) = <<24, 6, 6, 24>>
    /\ Appended[1].sensor_id = 102

\* C16: whatever the sensor catalog holds and whatever the remote APIs answer, the main
\* thread is never left by an uncaught exception: it ends by saving and exiting.
C16_NoFatalError ==
    /\ mpc # "crashed"
    /\ (mpc = "exit" => file # <<>>)

\* C19: a task that has returned its result has executed the fixed delay in its worker
\* thread first, and the main thread, which only collects, has executed none.
C19_DelayInsideTask ==
    /\ \A t \in Tasks : tpc[t] = "done" => delays.task[t] >= 1
    /\ delays.main = 0

-----------------------------------------------------------------------------
(* Properties of runs that follow each other, checked under SpecRuns *)

HeaderLines(f) == {i \in DOMAIN f : "header" \in DOMAIN f[i]}

\* C15: a run that finds the output file puts the rows of the run after the lines the
\* file holds, changes none of them and writes no header line; a header line is written
\* only by a run that finds no file, so the file never holds a second one.
C15_AppendWithoutSecondHeader ==
    /\ [](file # <<>> => HeaderLines(file[1]) = {1})
    /\ [][/\ (file # <<>> /\ mpc' = "exit") => file'[1] = file[1] \o all_data'
          /\ (file # <<>> /\ mpc' = "crashed") => file' = file
          /\ (file' # <<>> /\ HeaderLines(file'[1]) # (IF file = <<>> THEN {}
                                                       ELSE HeaderLines(file[1])))
                => file = <<>>]_vars

\* Two runs found the file of an earlier run and each appended its rows
C15_Witness ==
    /\ mpc = "exit"
    /\ all_data # <<>>
    /\ Len(file[1]) > 2 + Len(all_data)
    /\ SubSeq(file[1], 1, 2) = EarlierLines
    /\ SubSeq(file[1], Len(file[1]) - Len(all_data) + 1, Len(file[1])) = all_data
    /\ HeaderLines(file[1]) = {1}

-----------------------------------------------------------------------------
(* Properties of data_enricher, checked under SpecHDI *)

\* C20: every sub-index value written to hdi_processed.csv that is not missing lies
\* between 0 and 1, whatever le, eys, mys and gnipc are.
C20_SubIndicesNormalized ==
    hdi_processed # <<>> =>
        \A c \in DOMAIN hdi_processed[1] : \A y \in DOMAIN hdi_processed[1][c] :
            \A k \in {"life_expectancy_index", "education_index", "income_index"} :
                LET v == hdi_processed[1][c][y][k]
                IN  v # <<>> => (0 <= v[1].num /\ v[1].num <= v[1].den)

-----------------------------------------------------------------------------
(* C22: the retry ceiling of fetch_measurements counts the attempts of one page.
   Every pass of the while loop runs its own `for attempt in range(max_retries)`: the
   requests of one pass are all for the same page and are at most max_retries, the first
   request after a processed page is made at attempt 0 and a failure of it is followed
   by a delay of 1 second, and one fetch can issue more than max_retries requests in
   all. With an API that echoes (or omits) the page number the passes are for distinct
   pages, so no page number is requested more than max_retries times. *)
C22_CeilingPerPage ==
    /\ [](/\ attempt \in 0 .. max_retries - 1
          /\ Len(last) <= max_retries
          /\ \A i \in DOMAIN LoopRequests : LoopRequests[i] = Last(requests)
          /\ api.page \in {"echo", "absent"} =>
                \A p \in Range(requests) : Count(requests, p) <= max_retries)
    /\ [][/\ (Requested /\ Last(last') = "200" /\ fpc' = "request") =>
                attempt' = 0 /\ (api.page # "first" => page' = page + 1)
          /\ (Requested /\ Last(last') \in {"408", "429", "RequestException"}) =>
                /\ Len(last') = attempt + 1
                /\ sleeps' = Append(sleeps, 2 ^ attempt)
                /\ (requests # <<>> /\ Last(requests) # page) =>
                        attempt = 0 /\ Last(sleeps') = 1]_vars

\* Page 1 took all max_retries attempts, the fifth succeeded, and the first request of
\* page 2 failed and was followed by a delay of 1 second: six requests in one fetch
C22_Witness ==
    /\ Len(requests) = max_retries + 1
    /\ Count(requests, 1) = max_retries
    /\ Last(requests) = 2
    /\ sleeps = <<1, 2, 4, 8, 1>>
    /\ attempt = 1

-----------------------------------------------------------------------------
(* C23: against a server that echoes the requested page in meta.page and reports a
   constant found and a limit >= 1, fetch_measurements returns after finitely many
   requests; the page requested after a processed page is the reported page plus one,
   and the page requested never decreases during the fetch. *)
C23_TerminatesOnEchoingApi ==
    /\ <>(fpc = "returned")
    /\ [](\A i, j \in DOMAIN requests : i <= j => requests[i] <= requests[j])
    /\ [][/\ page' >= page
          /\ (Requested /\ Last(last') = "200" /\ fpc' = "request") =>
                page' = ReportedPage(Last(requests')) + 1
          /\ Requested => Last(requests') = page]_vars

\* The fetch returned after three pages, the second of them asked for twice
C23_Witness ==
    /\ api \in EchoApis
    /\ fpc = "returned"
    /\ requests = <<1, 2, 2, 3>>
    /\ Len(served) >= 3

-----------------------------------------------------------------------------
(* Properties of the weather cache and the orchestrator, checked under Spec *)

\* A lookup of key k has returned the sentinel to its caller
SentinelReturned(k) ==
    \E t \in Tasks : \E i \in Enriched(t) :
        RowKey(t, results[t][i]) = k /\ WeatherPart(results[t][i]) = Sentinel

\* C24 as stated: once a lookup of a key has returned the sentinel, no remote call is
\* issued for that key again and every lookup of the key that starts later returns the
\* sentinel.
C24_SentinelForTheRun ==
    [][\A k \in DOMAIN calls : SentinelReturned(k) =>
            /\ calls'[k] = calls[k]
            /\ \A t \in Tasks :
                  (LooksUp(t) /\ RowKey(t, results[t][pos[t]]) = k) =>
                      WeatherPart(results'[t][pos[t]]) = Sentinel]_vars

\* C24 as amended: the sentinel is stored like any record. The sentinel made of a
\* response is stored under its key unless the key is in the cache already (a
\* concurrent lookup stored its record first: the cache keeps that record); a key that
\* stays in the cache keeps its record; and a lookup of a key cached with the sentinel
\* returns the sentinel without a remote call, although the API could answer 200.
C24_SentinelMemoizedWhileCached ==
    /\ [](\A i \in DOMAIN cache :
            cache[i].value = Sentinel =>
                \E r \in WeatherResponses(cache[i].key) :
                    r.status = "200" /\ WeatherOf(r) # Sentinel)
    /\ [][/\ \A t \in Tasks :
                LET k == RowKey(t, results[t][pos[t]])
                IN  /\ (GetsResponse(t) /\ Missing(resp'[t])) =>
                          /\ WeatherPart(results'[t][pos[t]]) = Sentinel
                          /\ k \in CacheKeys(cache')
                          /\ k \notin CacheKeys(cache) => CacheGet(cache', k) = Sentinel
                          /\ k \in CacheKeys(cache) => cache' = cache
                    /\ (tpc[t] = "lookup" /\ k \in CacheKeys(cache)
                            /\ CacheGet(cache, k) = Sentinel /\ tpc'[t] # "lookup") =>
                          /\ LooksUp(t)
                          /\ WeatherPart(results'[t][pos[t]]) = Sentinel
                          /\ calls' = calls
                          /\ CacheGet(cache', k) = Sentinel
          /\ \A k \in CacheKeys(cache) \cap CacheKeys(cache') :
                CacheGet(cache', k) = CacheGet(cache, k)]_vars

\* A response 500 gave one sensor the sentinel, which was stored; the other sensor's
\* lookup of the same key returned the stored sentinel: one remote call in all
C24_Witness ==
    /\ sensors_df = NearbySensors
    /\ \E i \in Enriched(1), j \in Enriched(2) :
        /\ RowKey(1, results[1][i]) = RowKey(2, results[2][j])
        /\ calls[RowKey(1, results[1][i])] = 1
        /\ WeatherPart(results[1][i]) = Sentinel
        /\ WeatherPart(results[2][j]) = Sentinel
        /\ RowKey(1, results[1][i]) \in CacheKeys(cache)

\* C25: when requests.get raises inside fetch_weather for a measurement of a sensor,
\* the task of the sensor ends with the exception (no further lookup of it starts), the
\* rows it had enriched before stay out of what the run appends, the raising call
\* stores nothing in the cache and counts as no further call, and a lookup of a key
\* that is not in the cache, the raising key included, issues a remote call.
C25_RaisedLookupDropsSensor ==
    /\ [](\A t \in Tasks : tpc[t] = "raised" =>
            /\ resp[t] = Raised
            /\ pos[t] \in DOMAIN results[t]
            /\ \A i \in DOMAIN all_data : all_data[i].sensor_id # sensors_df[t].sensor_id
            /\ mpc = "exit" => RowsOf(Appended, sensors_df[t].sensor_id) = <<>>)
    /\ [][\A t \in Tasks :
            /\ (tpc[t] # "raised" /\ tpc'[t] = "raised") =>
                    /\ tpc[t] = "calling"
                    /\ cache' = cache /\ calls' = calls
                    /\ results' = results /\ pos' = pos
            /\ tpc[t] = "raised" => tpc'[t] = "raised" /\ results'[t] = results[t]
            /\ (tpc[t] = "lookup" /\ tpc'[t] # "lookup"
                    /\ RowKey(t, results[t][pos[t]]) \notin CacheKeys(cache)) =>
                    /\ tpc'[t] = "calling"
                    /\ calls' = [calls EXCEPT ![RowKey(t, results[t][pos[t]])] = @ + 1]]_vars

\* The task of sensor 101 raised at its second row, after its first row was enriched;
\* sensor 102 looked the same key up, called the API for it, and its rows alone were
\* saved
C25_Witness ==
    /\ mpc = "exit"
    /\ sensors_df = NearbySensors
    /\ tpc = <<"raised", "done">>
    /\ Len(results[1]) = 2 /\ pos[1] = 2
    /\ WeatherPart(results[1][1]) \in PossibleRecords(RowKey(1, results[1][1]))
    /\ results[2] # <<>>
    /\ RowKey(2, Last(results[2])) = RowKey(1, results[1][2])
    /\ RowKey(1, results[1][2]) # RowKey(1, results[1][1])
    /\ calls[RowKey(1, results[1][2])] = 2
    /\ Appended = results[2]

\* C26: all_data changes only in a step of the main thread that collects one completed
\* task, by the whole list of that task appended at its end; so in all_data, and in the
\* lines the run appends to the file, the rows of each sensor task form one contiguous
\* block, whatever the order in which the worker threads took their steps.
C26_RowsOfATaskAreContiguous ==
    /\ [](/\ Contiguous(all_data)
          /\ mpc = "exit" => Contiguous(Appended) /\ Appended = all_data)
    /\ [][all_data' # all_data =>
            \E t \in Tasks \ collected :
                /\ collected' = collected \cup {t}
                /\ tpc[t] = "done"
                /\ all_data' = all_data \o results[t]
                /\ tpc' = tpc /\ results' = results]_vars

\* Both tasks have two rows; the task submitted second completed and was collected
\* first, while the task submitted first had only its first row enriched
C26_Witness ==
    /\ sensors_df = NearbySensors
    /\ Len(results[1]) = 2 /\ Len(results[2]) = 2
    /\ collected = {2}
    /\ tpc[1] = "lookup" /\ pos[1] = 2
    /\ all_data = results[2]

-----------------------------------------------------------------------------
(* Runs that follow each other, checked under SpecRuns *)

\* The columns of a row of the output table
ReadingColumns ==
    {"reading_datetime", "sensor_id", "reading_value", "wind_speed", "rain", "temp"}

\* C27 as stated: whatever runs came before and whatever they collected, the output
\* file, when there is one, begins with a header line that names the reading columns,
\* and holds no other header line.
C27_HeaderNamesReadingColumns ==
    file # Absent =>
        /\ file[1] # <<>>
        /\ file[1][1] = [header |-> ReadingColumns]
        /\ HeaderLines(file[1]) = {1}

-----------------------------------------------------------------------------
(* Properties of detect_sudden_changes, checked under SpecAnomalies *)

\* The pairs of year columns that follow each other among the columns present
ConsecutivePairs(cols) ==
    {p \in cols \X cols : p[1] < p[2] /\ ~\E y \in cols : p[1] < y /\ y < p[2]}

\* The change of a row from year y1 to year y2 is one to report: both values present
\* and |v2 - v1| > threshold_abs, or v1 # 0 and |v2 - v1| / v1 > threshold_pct (a
\* quotient with a negative v1 is not above a threshold that is not negative)
Reportable(row, y1, y2) ==
    /\ row.le[y1] # Absent
    /\ row.le[y2] # Absent
    /\ LET v1 == row.le[y1][1]
           v2 == row.le[y2][1]
           change == IF v2 >= v1 THEN v2 - v1 ELSE v1 - v2
       IN  \/ threshold_abs # Absent /\ change > threshold_abs[1]
           \/ /\ threshold_pct # Absent
              /\ v1 > 0
              /\ change * threshold_pct[1].den > threshold_pct[1].num * v1

\* The records of the result for a country and a pair of years
RecordsOf(c, y1, y2) ==
    {i \in DOMAIN anomalies :
        /\ anomalies[i].country = c
        /\ anomalies[i].year_from = y1
        /\ anomalies[i].year_to = y2}

\* C21: the result of detect_sudden_changes holds one record for every country and
\* pair of consecutive available years whose change is one to report, and no other
\* record: none for a pair with a missing value, none for a change equal to a
\* threshold, none at all when both thresholds are None; the record carries the two
\* values and their absolute change.
C21_OneRecordPerSuddenChange ==
    dpc = "returned" =>
        /\ \A r \in DOMAIN anom_df.rows : \A p \in ConsecutivePairs(anom_df.columns) :
              Cardinality(RecordsOf(anom_df.rows[r].country, p[1], p[2]))
                = IF Reportable(anom_df.rows[r], p[1], p[2]) THEN 1 ELSE 0
        /\ \A i \in DOMAIN anomalies :
              \E r \in DOMAIN anom_df.rows : \E p \in ConsecutivePairs(anom_df.columns) :
                  /\ i \in RecordsOf(anom_df.rows[r].country, p[1], p[2])
                  /\ anomalies[i].value_before = anom_df.rows[r].le[p[1]][1]
                  /\ anomalies[i].value_after = anom_df.rows[r].le[p[2]][1]
                  /\ anomalies[i].abs_change
                        \in {anomalies[i].value_after - anomalies[i].value_before,
                             anomalies[i].value_before - anomalies[i].value_after}
                  /\ anomalies[i].abs_change >= 0
        /\ (threshold_abs = Absent /\ threshold_pct = Absent) => anomalies = <<>>
        /\ \A i \in DOMAIN anomalies :
              /\ (threshold_pct = Absent) => anomalies[i].abs_change > threshold_abs[1]

\* With threshold_abs = 10 and threshold_pct = 0.2: Norway went from 50 to 60 (a change
\* of exactly 10, exactly a fifth) and has no value for 1992, Sweden went from 50 to 61
\* and on to 50; the result holds the two records of Sweden only
C21_Witness ==
    /\ dpc = "returned"
    /\ threshold_abs = Some(10)
    /\ threshold_pct = Some([num |-> 1, den |-> 5])
    /\ anom_df.columns = AnomYears
    /\ anom_df.rows[1].le = (1990 :> Some(50) @@ 1991 :> Some(60) @@ 1992 :> Absent)
    /\ anom_df.rows[2].le = (1990 :> Some(50) @@ 1991 :> Some(61) @@ 1992 :> Some(50))
    /\ Len(anomalies) = 2
    /\ anomalies[1] = [country |-> "SWE", year_from |-> 1990, year_to |-> 1991,
                       value_before |-> 50, value_after |-> 61, abs_change |-> 11,
                       pct_change |-> Some([num |-> 11, den |-> 50])]
    /\ anomalies[2].year_from = 1991

-----------------------------------------------------------------------------
(* Properties of sensors_fetcher, checked under SpecSensors *)

\* C28 as stated: a run that found no sensors.csv writes the header row, so once a run
\* is past its header step the catalog begins with the header row and holds no other.
C28_CatalogBeginsWithHeader ==
    (sensors_csv # Absent /\ spc \in {"loop", "print", "exit"}) =>
        /\ sensors_csv[1] # <<>>
        /\ sensors_csv[1][1] = CatalogHeader
        /\ HeaderLines(sensors_csv[1]) = {1}

\* The rows the run has written: what sensors.csv holds after the rows it held when
\* the run started
WrittenRows ==
    SubSeq(sensors_csv[1], Len(CatalogRows(old_csv)) + 1, Len(sensors_csv[1]))

\* Location l has both timestamps, the last of them in 2025 or later
Current(l) ==
    /\ l.datetimeFirst # Absent
    /\ l.datetimeLast # Absent
    /\ l.datetimeLast[1] >= 2025

\* The sensors of the locations the loop has passed that are to be written: pairs
\* <<index of the location, index of the sensor>>
Due ==
    UNION {{<<l, k>> : k \in {j \in DOMAIN ResultsOf(response)[l].sensors :
                                Lower(ResultsOf(response)[l].sensors[j].name)
                                    \in {"pm10", "pm25", "o3", "no2", "co", "so2"}}} :
           l \in {j \in DOMAIN ResultsOf(response) :
                        j < loc_pos /\ Current(ResultsOf(response)[j])}}

\* C29: the rows a run has written follow the rows the file held before, unchanged;
\* each has a pollutant_type of the valid set and is the row of a sensor of a location
\* with both timestamps and a last reading in 2025 or later; every such sensor of the
\* locations passed has exactly one row; and the count printed is the number of rows
\* the run has written.
C29_RowsWrittenAndCounted ==
    (spc \in {"loop", "print", "exit"}) =>
        /\ SubSeq(sensors_csv[1], 1, Len(CatalogRows(old_csv))) = CatalogRows(old_csv)
        /\ \A i \in DOMAIN WrittenRows :
              /\ "pollutant_type" \in DOMAIN WrittenRows[i]
              /\ WrittenRows[i].pollutant_type \in {"pm10", "pm25", "o3", "no2", "co", "so2"}
              /\ \E p \in Due :
                    LET l == ResultsOf(response)[p[1]]
                    IN  /\ WrittenRows[i].sensor_id = l.sensors[p[2]].id
                        /\ WrittenRows[i].pollutant_type = Lower(l.sensors[p[2]].name)
                        /\ WrittenRows[i].first_reading = l.datetimeFirst[1]
                        /\ WrittenRows[i].last_reading = l.datetimeLast[1]
                        /\ WrittenRows[i].last_reading >= 2025
        /\ Len(WrittenRows) = Cardinality(Due)
        /\ nrows = Len(WrittenRows)
        /\ spc = "exit" => printed = Some(Len(WrittenRows))
        /\ spc # "loop" => loc_pos = Len(ResultsOf(response)) + 1

\* A run on a file of two rows passed a current location with the sensors PM25 and
\* temperature and a location without a first timestamp: it wrote the pm25 row alone
\* and printed 1
C29_Witness ==
    /\ spc = "exit"
    /\ Len(ResultsOf(response)) = 2
    /\ Len(ResultsOf(response)[1].sensors) = 2
    /\ ResultsOf(response)[1].sensors[1].name = "PM25"
    /\ ResultsOf(response)[2].datetimeFirst = Absent
    /\ old_csv = Some(HeadedCatalog)
    /\ printed = Some(1)
    /\ Len(sensors_csv[1]) = 3
    /\ sensors_csv[1][3].pollutant_type = "pm25"

-----------------------------------------------------------------------------
(* Properties of the country selection of app.py, checked under SpecApp *)

\* The user changes a multiselect in this step
SelectionChanged == \E w \in DOMAIN shown : shown'[w].value # shown[w].value /\ apc' = "rerun"

\* C30: when no script run is due, both multiselects show the same selection, which is
\* session_state.selected_countries and the selection the user made last (the empty
\* one before any change); sync_key_counter grows by one in every step that changes a
\* selection, in no other step, and never decreases; a script run and a change of
\* another widget leave selected_countries and the counter as they are, and the run
\* shows selected_countries in both widgets.
C30_SelectionsStayInSync ==
    /\ [](apc = "idle" =>
            /\ \A w \in Multiselects : shown[w].value = selected_countries
            /\ selected_countries = IF last_change = Absent THEN <<>> ELSE last_change[1])
    /\ [][/\ sync_key_counter' >= sync_key_counter
          /\ sync_key_counter' = IF SelectionChanged THEN sync_key_counter + 1
                                                   ELSE sync_key_counter
          /\ ~SelectionChanged => selected_countries' = selected_countries
          /\ (SelectionChanged /\ apc = "idle") =>
                \E w \in Multiselects :
                    /\ shown'[w].value # selected_countries
                    /\ selected_countries' = shown'[w].value
          /\ (apc = "rerun" /\ apc' = "idle" /\ shown # <<>>) =>
                \A w \in Multiselects :
                    shown[w].key = <<w, sync_key_counter>> =>
                        shown'[w].value = shown[w].value]_vars

\* The user chose Norway in the Component Comparison tab, then Sweden after it in the
\* Temporal Trends tab, then moved the slider; after the runs both widgets show
\* Norway, Sweden
C30_Witness ==
    /\ apc = "idle"
    /\ sync_key_counter = 2
    /\ year_radar = 2022
    /\ selected_countries = <<"NOR", "SWE">>
    /\ shown["radar"].value = <<"NOR", "SWE">>
    /\ shown["temporal"].value = <<"NOR", "SWE">>
====
